---- MODULE Spec2Model ----
(***************************************************************************)
(* A model of yo.c, the LLM shell assistant built into readline            *)
(* (src/readline-8.2.13/yo.c): the conversation memory, the scrollback     *)
(* ring, the tool-call transport's response normalisation, and the         *)
(* accept-line / continuation-hook control loop.                           *)
(*                                                                         *)
(* C strings are TLA+ strings; a NULL char* is the reserved value NULL.    *)
(* C ints used as flags are BOOLEANs.                                      *)
(***************************************************************************)
EXTENDS Integers, Sequences, FiniteSets, TLC

VARIABLES
    \* ---- conversation memory and configuration (static variables of yo.c)
    yo_history,               \* yo_history[0 .. yo_history_count-1], as a sequence
    yo_history_limit,
    yo_token_budget,
    \* ---- session and continuation flags
    yo_last_was_command,
    yo_continuation_active,
    yo_saved_startup_hook,
    yo_last_executed_command,
    yo_cancelled,
    \* ---- the process's SIGINT disposition and the self-pipe of the transport
    sigint_handler,           \* sa_handler of the current SIGINT sigaction
    yo_sigint_pipe,           \* unread bytes in the pipe, or NoPipe before pipe()
    \* ---- the editor (readline) state the assistant reads and writes
    rl_startup_hook,
    rl_sigcleanup,            \* _rl_sigcleanup: the registered one-shot cleanup
    rl_line_buffer,
    \* ---- the scrollback ring (shared memory) and the last read's result
    yo_scrollback,            \* the mmap'd yo_scrollback_t, or NoRing
    yo_scrollback_enabled,
    sb_result,
    \* ---- the ring's process-shared mutex and the two processes' positions
    \*      inside the ring functions (fine-grained interleaving only)
    ring_lock,                \* holder of yo_scrollback->lock, or Unlocked
    pump,                     \* the pump: inside yo_scrollback_append, or the
                              \* locals and position of yo_pump_loop
    shell,                    \* the shell: inside rl_yo_get_scrollback / clear,
                              \* or how the process ended
    \* ---- position of the shell process and the locals of the turn in progress
    pc,
    turn,
    \* ---- observation only: what the last step did, and per-run counters
    ev,
    obs

histVars == <<yo_history, yo_history_limit, yo_token_budget>>
flagVars == <<yo_last_was_command, yo_continuation_active, yo_saved_startup_hook,
              yo_last_executed_command, yo_cancelled>>
rlVars   == <<rl_startup_hook, rl_sigcleanup, rl_line_buffer>>
ringVars == <<yo_scrollback, yo_scrollback_enabled, sb_result>>
sigVars  == <<sigint_handler, yo_sigint_pipe>>
procVars == <<ring_lock, pump, shell>>
vars == <<yo_history, yo_history_limit, yo_token_budget,
          yo_last_was_command, yo_continuation_active, yo_saved_startup_hook,
          yo_last_executed_command, yo_cancelled, sigint_handler, yo_sigint_pipe,
          rl_startup_hook, rl_sigcleanup, rl_line_buffer,
          yo_scrollback, yo_scrollback_enabled, sb_result, ring_lock, pump, shell,
          pc, turn, ev, obs>>

(***************************************************************************)
(* Strings                                                                 *)
(***************************************************************************)

\* A NULL char*.  No string of the model has this value.
NULL == "<null>"

\* strlen()
StrLen(s) == Len(s)

\* s[i] for 0 <= i < strlen(s); the terminating NUL beyond it is "".
CharAt(s, i) == IF i < Len(s) THEN SubSeq(s, i + 1, i + 1) ELSE ""

\* A comparison that stops one byte before the end of p.
HasPrefixButLast(s, p) ==
    Len(s) >= Len(p) - 1 /\ SubSeq(s, 1, Len(p) - 1) = SubSeq(p, 1, Len(p) - 1)

\* strncmp(s, p, strlen(p)) == 0
HasPrefix(s, p) == Len(s) >= Len(p) /\ SubSeq(s, 1, Len(p)) = p

RECURSIVE Rep(_, _)
Rep(s, n) ==
    IF n = 0 THEN ""
    ELSE IF n % 2 = 1 THEN s \o Rep(s, n - 1)
    ELSE LET half == Rep(s, n \div 2) IN half \o half

DigitVal(c) ==
    CASE c = "0" -> 0 [] c = "1" -> 1 [] c = "2" -> 2 [] c = "3" -> 3
      [] c = "4" -> 4 [] c = "5" -> 5 [] c = "6" -> 6 [] c = "7" -> 7
      [] c = "8" -> 8 [] c = "9" -> 9 [] OTHER -> -1

\* The digits from s[i] on, as the negated number: the magnitude of INT_MIN
\* does not fit an int.
RECURSIVE AtoiDigits(_, _, _)
AtoiDigits(s, i, acc) ==
    IF DigitVal(CharAt(s, i)) < 0 THEN acc
    ELSE AtoiDigits(s, i + 1, acc * 10 - DigitVal(CharAt(s, i)))

RECURSIVE AtoiFrom(_, _)
AtoiFrom(s, i) ==
    IF CharAt(s, i) \in {" ", "\t", "\n"} THEN AtoiFrom(s, i + 1)
    ELSE IF CharAt(s, i) = "-" THEN AtoiDigits(s, i + 1, 0)
    ELSE IF CharAt(s, i) = "+" THEN 0 - AtoiDigits(s, i + 1, 0)
    ELSE 0 - AtoiDigits(s, i, 0)

\* atoi(): optional blanks, optional sign, decimal digits; 0 when there are none.
Atoi(s) == AtoiFrom(s, 0)

(***************************************************************************)
(* Configuration (yo_reload_config)                                        *)
(***************************************************************************)

YO_DEFAULT_HISTORY_LIMIT == 10
YO_DEFAULT_TOKEN_BUDGET == 4096
MinTokenBudget == 100

\* The value yo_reload_config gives yo_history_limit for getenv("YO_HISTORY_LIMIT").
ReloadHistoryLimit(env_val) ==
    IF env_val # NULL /\ env_val # ""
    THEN IF Atoi(env_val) < 1 THEN YO_DEFAULT_HISTORY_LIMIT ELSE Atoi(env_val)
    ELSE YO_DEFAULT_HISTORY_LIMIT

\* The value yo_reload_config gives yo_token_budget for getenv("YO_TOKEN_BUDGET").
ReloadTokenBudget(env_val) ==
    IF env_val # NULL /\ env_val # ""
    THEN IF Atoi(env_val) < MinTokenBudget THEN YO_DEFAULT_TOKEN_BUDGET ELSE Atoi(env_val)
    ELSE YO_DEFAULT_TOKEN_BUDGET

(***************************************************************************)
(* Conversation memory                                                     *)
(***************************************************************************)

\* yo_exchange_t
Exchange(query, type, response, tool_use_id, executed, pending) ==
    [query |-> query, response_type |-> type, response |-> response,
     tool_use_id |-> tool_use_id, executed |-> executed, pending |-> pending]

RECURSIVE SumChars(_, _)
SumChars(h, i) ==
    IF i > Len(h) THEN 0
    ELSE (IF h[i].query # NULL THEN StrLen(h[i].query) ELSE 0)
         + (IF h[i].response # NULL THEN StrLen(h[i].response) ELSE 0)
         + SumChars(h, i + 1)

\* yo_estimate_tokens, of the memory h
yo_estimate_tokens(h) == SumChars(h, 1) \div 4

\* The first loop of yo_history_prune: drop the oldest while count >= limit.
RECURSIVE PruneCount(_, _)
PruneCount(h, limit) ==
    IF Len(h) >= limit THEN PruneCount(Tail(h), limit) ELSE h

\* A token loop that empties the memory as soon as it is over the budget.
PruneTokensAll(h, budget) ==
    IF Len(h) > 0 /\ yo_estimate_tokens(h) > budget THEN <<>> ELSE h

\* The second loop: drop the oldest while the estimate exceeds the budget.
RECURSIVE PruneTokens(_, _)
PruneTokens(h, budget) ==
    IF Len(h) > 0 /\ yo_estimate_tokens(h) > budget
    THEN PruneTokens(Tail(h), budget) ELSE h

\* A prune whose count loop stops one entry too early (count > limit).
PruneOffByOne(h, limit, budget) ==
    PruneTokens(IF Len(h) > limit THEN SubSeq(h, Len(h) - limit + 1, Len(h)) ELSE h,
                budget)

\* yo_history_prune
yo_history_prune(h, limit, budget) == PruneTokens(PruneCount(h, limit), budget)

\* yo_history_add: prune, then append the new entry.
yo_history_add(h, limit, budget, x) == Append(yo_history_prune(h, limit, budget), x)

(***************************************************************************)
(* Scrollback ring                                                         *)
(***************************************************************************)

\* Bytes are one-character tokens; NUL is the zero byte, ESC is '\033'.
NUL == ""
ESC == "^["
LF == "\n"

Letters ==
    {"a", "b", "c", "d", "e", "f", "g", "h", "i", "j", "k", "l", "m",
     "n", "o", "p", "q", "r", "s", "t", "u", "v", "w", "x", "y", "z",
     "A", "B", "C", "D", "E", "F", "G", "H", "I", "J", "K", "L", "M",
     "N", "O", "P", "Q", "R", "S", "T", "U", "V", "W", "X", "Y", "Z"}

\* (*p >= 'A' && *p <= 'Z') || (*p >= 'a' && *p <= 'z')
IsLetter(b) == b \in Letters

YO_DEFAULT_SCROLLBACK_LINES == 1000

\* yo_scrollback == NULL: no ring was mapped.
NoRing ==
    [capacity |-> 0, write_pos |-> 0, data_size |-> 0, max_lines |-> 0, data |-> <<>>]

\* The ring as yo_pty_init leaves it: zeroed shared memory of the given capacity.
NewRing(capacity, max_lines) ==
    [capacity |-> capacity, write_pos |-> 0, data_size |-> 0,
     max_lines |-> max_lines, data |-> [i \in 0 .. capacity - 1 |-> NUL]]

\* The byte loop of yo_scrollback_append: (data, write_pos) after writing chunk[i..].
RECURSIVE RingWrite(_, _, _, _, _)
RingWrite(data, write_pos, capacity, chunk, i) ==
    IF i > Len(chunk) THEN [data |-> data, write_pos |-> write_pos]
    ELSE RingWrite([data EXCEPT ![write_pos] = chunk[i]],
                   (write_pos + 1) % capacity, capacity, chunk, i + 1)

\* yo_scrollback_append
yo_scrollback_append(ring, chunk) ==
    IF ring = NoRing \/ Len(chunk) = 0 THEN ring
    ELSE LET w == RingWrite(ring.data, ring.write_pos, ring.capacity, chunk, 1)
             n == ring.data_size + Len(chunk)
         IN  [ring EXCEPT !.data = w.data, !.write_pos = w.write_pos,
                          !.data_size = IF n > ring.capacity THEN ring.capacity ELSE n]

\* rl_yo_clear_history (1048-1073): every exchange is freed and the count
\* zeroed; the function touches nothing else.
rl_yo_clear_history(h) == <<>>

\* A clear of the ring that leaves its size as it is.
ClearKeepsSize(ring) ==
    IF ring = NoRing THEN ring ELSE [ring EXCEPT !.write_pos = 0]

\* yo_scrollback_clear: the data bytes stay as they are.
yo_scrollback_clear(ring) ==
    IF ring = NoRing THEN ring
    ELSE [ring EXCEPT !.write_pos = 0, !.data_size = 0]

\* The shell process never is the pump.
yo_is_pump == FALSE

\* memcpy of data[from .. from+n-1] as a sequence
Bytes(data, from, n) == [k \in 1 .. n |-> data[from + k - 1]]

\* A copy that always starts at data[0], as if the ring never wrapped.
RawDataNoWrap(ring) == Bytes(ring.data, 0, ring.data_size)

\* raw_data of rl_yo_get_scrollback: the ring's content in write order.
RawData(ring) ==
    IF ring.data_size < ring.capacity
    THEN Bytes(ring.data, 0, ring.data_size)
    ELSE Bytes(ring.data, ring.write_pos, ring.capacity - ring.write_pos)
         \o Bytes(ring.data, 0, ring.write_pos)

\* raw[p] of a NUL-terminated buffer, 0-based.
At(raw, p) == IF p >= 0 /\ p < Len(raw) THEN raw[p + 1] ELSE NUL

\* The backward scan for the start cursor: returns the index of the first byte kept.
RECURSIVE ScanStart(_, _, _, _, _)

\* A scan whose start cursor stays on the newline it counted.
ScanKeepsNewline(raw, p, line_count, start, max_lines) ==
    IF p >= 0 /\ line_count < max_lines
    THEN IF At(raw, p) = LF
         THEN ScanStart(raw, p - 1, line_count + 1, p, max_lines)
         ELSE ScanStart(raw, p - 1, line_count, start, max_lines)
    ELSE IF line_count < max_lines /\ p < 0 THEN 0 ELSE start

ScanStart(raw, p, line_count, start, max_lines) ==
    IF p >= 0 /\ line_count < max_lines
    THEN IF At(raw, p) = LF
         THEN ScanStart(raw, p - 1, line_count + 1, p + 1, max_lines)
         ELSE ScanStart(raw, p - 1, line_count, start, max_lines)
    ELSE IF line_count < max_lines /\ p < 0 THEN 0 ELSE start

\* Skip the parameter bytes of a CSI sequence: the index of its final letter or of the NUL.
RECURSIVE SkipCsi(_, _)
SkipCsi(raw, p) ==
    IF At(raw, p) # NUL /\ ~IsLetter(At(raw, p)) THEN SkipCsi(raw, p + 1) ELSE p

\* The copy loop that strips ANSI escape sequences, from index p on.
RECURSIVE StripFrom(_, _, _)

\* A copy loop that drops the ESC of a two-byte sequence and keeps the byte
\* after it.
StripKeepsEscaped(raw, p, out) ==
    IF At(raw, p) = NUL THEN out
    ELSE IF At(raw, p) = ESC /\ At(raw, p + 1) = "["
         THEN LET q == SkipCsi(raw, p + 2)
              IN  IF At(raw, q) = NUL THEN out ELSE StripFrom(raw, q + 1, out)
    ELSE IF At(raw, p) = ESC /\ At(raw, p + 1) # NUL
         THEN StripFrom(raw, p + 2, Append(out, At(raw, p + 1)))
    ELSE StripFrom(raw, p + 1, Append(out, At(raw, p)))

StripFrom(raw, p, out) ==
    IF At(raw, p) = NUL THEN out
    ELSE IF At(raw, p) = ESC /\ At(raw, p + 1) = "["
         THEN LET q == SkipCsi(raw, p + 2)
              IN  IF At(raw, q) = NUL THEN out ELSE StripFrom(raw, q + 1, out)
    ELSE IF At(raw, p) = ESC /\ At(raw, p + 1) # NUL
         THEN StripFrom(raw, p + 2, out)
    ELSE StripFrom(raw, p + 1, Append(out, At(raw, p)))

\* rl_yo_get_scrollback after the unlock (835-886): the backward scan of
\* the private copy raw, then the stripping copy from the start cursor on.
StrippedTail(raw, max_lines) ==
    StripFrom(raw, ScanStart(raw, Len(raw) - 1, 0, Len(raw), max_lines), <<>>)

\* rl_yo_get_scrollback: the C string returned, as its sequence of bytes.
rl_yo_get_scrollback(ring, enabled, max_lines_arg) ==
    IF ~enabled \/ ring = NoRing \/ yo_is_pump THEN <<>>
    ELSE IF ring.data_size = 0 THEN <<>>
    ELSE LET max_lines == IF max_lines_arg <= 0 THEN ring.max_lines ELSE max_lines_arg
         IN  StrippedTail(RawData(ring), max_lines)

\* The bytes of a sequence as one string.
RECURSIVE Join(_)
Join(bs) == IF Len(bs) = 0 THEN "" ELSE Head(bs) \o Join(Tail(bs))

(***************************************************************************)
(* Tool-use objects, response parsing and response normalisation           *)
(***************************************************************************)

\* The int range
INT_MAX == 2147483647
INT_MIN == (0 - INT_MAX) - 1

\* A number as cJSON's parse_number computes it: m * 10^e.
Double(m, e) == [m |-> m, e |-> e]

RECURSIVE Pow10(_)
Pow10(e) == IF e = 0 THEN 1 ELSE 10 * Pow10(e - 1)

Abs(n) == IF n < 0 THEN 0 - n ELSE n

\* (int)valuedouble: the value truncated toward zero when that fits an
\* int.  Otherwise the conversion is undefined; the outcomes are the two
\* that conversion instructions produce, INT_MIN (x86) and the saturated
\* value (ARM).
IntCastOutcomes(d) ==
    IF d.e < 0
    THEN IF 0 - d.e > 9 THEN {0}
         ELSE {(IF d.m < 0 THEN -1 ELSE 1) * (Abs(d.m) \div Pow10(0 - d.e))}
    ELSE IF d.m = 0 THEN {0}
    ELSE IF d.e <= 9 /\ Abs(d.m) <= INT_MAX \div Pow10(d.e)
    THEN {d.m * Pow10(d.e)}
    ELSE {INT_MIN, IF d.m < 0 THEN INT_MIN ELSE INT_MAX}

\* The lines member of a tool-use that has none.
NoLines == Double(0, 0)

\* A tool-use JSON object: its name and id (NULL when absent or no string) and
\* the members of its input object (has_input FALSE when there is none).
ToolUse(name, id, has_input, command, explanation, pending, response, has_lines, lines) ==
    [name |-> name, id |-> id, has_input |-> has_input, command |-> command,
     explanation |-> explanation, pending |-> pending, response |-> response,
     has_lines |-> has_lines, lines |-> lines]

CommandTool(id, command, explanation, pending) ==
    ToolUse("command", id, TRUE, command, explanation, pending, NULL, FALSE, NoLines)

ChatTool(id, response) ==
    ToolUse("chat", id, TRUE, NULL, NULL, FALSE, response, FALSE, NoLines)

ScrollbackTool(id, has_lines, lines) ==
    ToolUse("scrollback", id, TRUE, NULL, NULL, FALSE, NULL, has_lines, lines)

DocsTool(id) == ToolUse("docs", id, FALSE, NULL, NULL, FALSE, NULL, FALSE, NoLines)

\* What a call of the transport returns: a tool-use object, or none (NULL).
Some(tool_use) == [some |-> TRUE, tool_use |-> tool_use]
None == [some |-> FALSE, tool_use |-> DocsTool(NULL)]

\* The out-parameters of yo_parse_response and its return value (ok).
Parsed(ok, type, content, explanation, tool_use_id, pending) ==
    [ok |-> ok, type |-> type, content |-> content, explanation |-> explanation,
     tool_use_id |-> tool_use_id, pending |-> pending]

ParseFailed == Parsed(FALSE, NULL, NULL, NULL, NULL, FALSE)

\* yo_parse_response, with n the int the cast of the lines member gave.
yo_parse_response_cast(r, n) ==
    LET t == r.tool_use
        content ==
            CASE t.name = "command" -> t.command
              [] t.name = "chat" -> t.response
              [] t.name = "scrollback" ->
                    IF t.has_lines THEN ToString(n) ELSE "50"
              [] t.name = "docs" -> ""
              [] OTHER -> NULL
    IN  IF ~r.some \/ t.name = NULL THEN ParseFailed
        ELSE IF ~t.has_input
        THEN IF t.name = "docs"
             THEN Parsed(TRUE, "docs", "", NULL, t.id, FALSE)
             ELSE ParseFailed
        ELSE IF content = NULL THEN ParseFailed
        ELSE Parsed(TRUE, t.name, content,
                    IF t.name = "command" THEN t.explanation ELSE NULL,
                    t.id,
                    t.name = "command" /\ t.pending)

\* yo_parse_response of a tool-use whose lines member, if any, fits an int,
\* so that the cast has one outcome.
yo_parse_response(r) ==
    yo_parse_response_cast(r, CHOOSE n \in IntCastOutcomes(r.tool_use.lines) : TRUE)

\* One block of a response's content array. type is NULL for a block whose
\* type member is missing; text is NULL when a text block has no string text.
Block(type, text, tool_use) == [type |-> type, text |-> text, tool_use |-> tool_use]
ToolUseBlock(tool_use) == Block("tool_use", NULL, tool_use)
TextBlock(text) == Block("text", text, DocsTool(NULL))

\* The blocks of one type, in array order.
BlocksOf(content, type) == SelectSeq(content, LAMBDA b : b.type = type)

\* tool_use_count of the normalisation
ToolUseCount(content) == Len(BlocksOf(content, "tool_use"))

\* The synthetic chat tool-use built when a response holds no tool-use.
SyntheticChat(content) ==
    LET texts == BlocksOf(content, "text")
        text_content == IF Len(texts) > 0 THEN texts[1].text ELSE NULL
    IN  ChatTool("synthetic_text_response",
                 IF text_content # NULL THEN text_content ELSE "(empty response)")

\* A normalisation that takes the first tool-use of any response holding
\* several, without asking again.
NormaliseTakeFirst(content, is_retry) ==
    IF ToolUseCount(content) = 0
    THEN [reissue |-> FALSE, result |-> Some(SyntheticChat(content))]
    ELSE [reissue |-> FALSE, result |-> Some(BlocksOf(content, "tool_use")[1].tool_use)]

\* A normalisation that asks again whenever the reply holds several
\* tool-uses, the reply to a second request too.
NormaliseAsksAgain(content, is_retry) ==
    IF ToolUseCount(content) = 0
    THEN [reissue |-> FALSE, result |-> Some(SyntheticChat(content))]
    ELSE IF ToolUseCount(content) = 1
    THEN [reissue |-> FALSE,
          result |-> Some(BlocksOf(content, "tool_use")[1].tool_use)]
    ELSE [reissue |-> TRUE, result |-> None]

\* The end of yo_call_claude_with_messages_internal, from the count of the
\* tool-use blocks on: the result, or the decision to issue the request again.
Normalise(content, is_retry) ==
    LET tool_use_count == ToolUseCount(content)
    IN  IF tool_use_count = 0
        THEN [reissue |-> FALSE, result |-> Some(SyntheticChat(content))]
        ELSE IF tool_use_count = 1 \/ is_retry
        THEN [reissue |-> FALSE,
              result |-> Some(BlocksOf(content, "tool_use")[1].tool_use)]
        ELSE [reissue |-> TRUE, result |-> None]

(***************************************************************************)
(* Bounds of the model                                                     *)
(***************************************************************************)

\* yo_history_add calls in one run of SpecHist
MaxAdds == 4

\* Largest ring capacity (YO_SCROLLBACK_BYTES) of SpecRing
MaxRingCap == 3

\* Bytes appended to the ring between two clears in SpecRing
MaxWritten == 5

\* Longest chunk one append writes in SpecRing
MaxChunk == 2

\* SIGINTs delivered during one transport call in SpecXfer
MaxSigints == 2

(***************************************************************************)
(* Observation variables                                                   *)
(***************************************************************************)

\* The locals of the turn in progress (of rl_yo_accept_line or of
\* yo_continuation_hook): the query, the tool-use in hand and its parse,
\* the follow-up turns left, and which request is in flight.
NoTurn ==
    [kind |-> "none", query |-> NULL, stage |-> "none", is_retry |-> FALSE,
     max_turns |-> 0, tool_use |-> None, parsed |-> ParseFailed,
     scrollback_data |-> NULL, messages |-> NULL]

\* obs records the history of the run that the properties speak about:
\*   adds, written   calls of yo_history_add, bytes appended since the clear
\*   turns           turns started (accepted yo queries and hook bodies)
\*   len_before      number of stored exchanges when the turn started
\*   nreq, first     HTTP requests of the transport call in progress and the
\*                   content array of its first response
\*   await           a command was dispatched and no line accepted since
\*   cleaned         the SIGINT cleanup ran since that dispatch
\*   interrupted     SIGINT hit an armed continuation, no yo line since
\*   owed            hook bodies due minus hook bodies run
\*   plan            progress through the two-step plan scenario
\*   sn              the serial number of each stored exchange
\*   follow          the with-result calls made in the turn in progress
\*   repairs, needed explanation-repair requests of the turn in progress, and
\*                   whether its command came without an explanation
\*   sigints         SIGINTs the request handler took during the transport call
\*   handler_before  the SIGINT disposition when the transport call began
\*   locked_ring     the ring as it was when the shell took the ring mutex
\*   pty             what yo_pty_init found and whether it forked
\*   fatal           a system call of the pump loop failed for good
\*   hook_before     rl_startup_hook as it was when the hook was last installed
\*   master          bytes the shell wrote to the PTY that the pump has not read
\*   display         the bytes the real stdout took, in order
\*   whole           how many bytes of display came from writes that succeeded
\*   sent            the number of bytes the shell wrote to the PTY
NoPty ==
    [called |-> FALSE, env |-> NULL, stdin_tty |-> FALSE, stdout_tty |-> FALSE,
     forked |-> FALSE]

Obs0 ==
    [adds |-> 0, written |-> <<>>, turns |-> 0, len_before |-> 0,
     nreq |-> 0, first |-> <<>>, await |-> FALSE, cleaned |-> FALSE,
     interrupted |-> FALSE, owed |-> 0, plan |-> 0, sn |-> <<>>,
     sigints |-> 0, handler_before |-> NULL,
     follow |-> 0, repairs |-> 0, needed |-> FALSE, locked_ring |-> NoRing,
     pty |-> NoPty, fatal |-> FALSE, hook_before |-> NULL,
     master |-> <<>>, display |-> <<>>, whole |-> 0, sent |-> 0]

\* ~/.yoshkey as stat() and fgets() find it: st_mode with its file type and
\* permission bits, and the first line of the file.  The text holds no
\* blanks, so the trimming of the key leaves it as it is.
KeyFile(exists, st_mode, text) == [exists |-> exists, st_mode |-> st_mode, text |-> text]
NoKeyFile == KeyFile(FALSE, 0, "")

\* ev describes the last step: the operation, its input and what it did.
Ev0 ==
    [op |-> "init", max_lines |-> 0, line |-> NULL, awaited |-> FALSE,
     cleaned |-> FALSE, flipped |-> FALSE, hook_body |-> FALSE,
     returned |-> FALSE, nreq |-> 0, first |-> <<>>, first_ok |-> FALSE,
     last |-> <<>>, last_ok |-> FALSE, result |-> None, repair_failed |-> FALSE,
     ended |-> FALSE, kind |-> "none", outcome |-> "none", err |-> "none",
     tool |-> None, printed |-> NULL, query |-> NULL, exhausted |-> FALSE,
     repairs |-> 0, needed |-> FALSE, ring_before |-> 0,
     before |-> <<>>, added |-> NULL, messages |-> NULL, file |-> NoKeyFile,
     stage |-> "none"]

Ev(op) == [Ev0 EXCEPT !.op = op]

EvRead(max_lines) == [Ev0 EXCEPT !.op = "read", !.max_lines = max_lines]

(***************************************************************************)
(* SpecHist: the conversation memory driven by arbitrary add sequences,    *)
(* with the limits reloaded from the environment between adds.             *)
(***************************************************************************)

\* Values of YO_HISTORY_LIMIT and YO_TOKEN_BUDGET in the environment.
HistLimitEnv == {NULL, "", "0", "1", "2", "3", "-4"}
HistBudgetEnv == {NULL, "99", "100", "150"}

ShortText == "ls"
MediumText == Rep("m", 200)
LargeText == Rep("x", 404)

\* Exchanges handed to yo_history_add: a short command, a chat reply of
\* moderate size, and a chat reply that alone is larger than 100 tokens.
HistExchanges ==
    { Exchange("yo q", "command", ShortText, "tu1", FALSE, FALSE),
      Exchange("yo q", "command", ShortText, "tu1", FALSE, TRUE),
      Exchange("yo q", "chat", MediumText, "tu2", TRUE, FALSE),
      Exchange("yo q", "chat", LargeText, "tu3", TRUE, FALSE) }

\* Everything the memory specification leaves alone.
HistFrame ==
    UNCHANGED <<flagVars, sigVars, procVars, rlVars, ringVars, turn>>

\* yo_sigint_pipe[] before pipe() has run
NoPipe == -1

\* The SIGINT handlers the process can have: the one the editor or the shell
\* installed, which yo.c only saves and restores, and the request's own.
EditorHandler == "rl_signal_handler"
RequestHandler == "yo_sigint_handler"

\* The pipe after a whole request: drained at its start, one byte written
\* by the handler if SIGINT came during it (the write end is non-blocking
\* and nothing reads the pipe before the next drain).
PipeAfterCall(sigint) == IF sigint THEN 1 ELSE 0

\* No process holds the ring mutex (pthread_mutex_init, 693-696); a process
\* that is not inside one of the ring functions.
Unlocked == "unlocked"
Outside == [at |-> "outside"]

InitState ==
    /\ yo_history = <<>>
    /\ yo_history_limit = YO_DEFAULT_HISTORY_LIMIT
    /\ yo_token_budget = YO_DEFAULT_TOKEN_BUDGET
    /\ yo_last_was_command = FALSE
    /\ yo_continuation_active = FALSE
    /\ yo_saved_startup_hook = NULL
    /\ yo_last_executed_command = NULL
    /\ yo_cancelled = FALSE
    /\ sigint_handler = EditorHandler
    /\ yo_sigint_pipe = NoPipe
    /\ rl_startup_hook = NULL
    /\ rl_sigcleanup = NULL
    /\ rl_line_buffer = ""
    /\ sb_result = <<>>
    /\ ring_lock = Unlocked
    /\ turn = NoTurn
    /\ ev = Ev("init")
    /\ obs = Obs0

\* The static variables, with both processes outside the ring functions.
InitCommon ==
    /\ InitState
    /\ pump = Outside
    /\ shell = Outside

InitHist ==
    /\ InitCommon
    /\ yo_scrollback = NoRing
    /\ yo_scrollback_enabled = FALSE
    /\ pc = "hist"

\* yo_reload_config, as far as the memory's limits go.
HistReload ==
    /\ pc = "hist"
    /\ \E el \in HistLimitEnv, eb \in HistBudgetEnv :
          /\ yo_history_limit' = ReloadHistoryLimit(el)
          /\ yo_token_budget' = ReloadTokenBudget(eb)
    /\ ev' = Ev("reload")
    /\ UNCHANGED <<yo_history, pc, obs>>
    /\ HistFrame

\* One call of yo_history_add.
HistAdd ==
    /\ pc = "hist"
    /\ obs.adds < MaxAdds
    /\ \E x \in HistExchanges :
          /\ yo_history' = yo_history_add(yo_history, yo_history_limit, yo_token_budget, x)
          /\ ev' = [Ev("add") EXCEPT !.before = yo_history, !.added = x]
    /\ obs' = [obs EXCEPT !.adds = @ + 1]
    /\ UNCHANGED <<yo_history_limit, yo_token_budget, pc>>
    /\ HistFrame

NextHist == HistReload \/ HistAdd

SpecHist == InitHist /\ [][NextHist]_vars

\* C1: immediately after every yo_history_add the number of stored exchanges
\* is at most the current history limit, whatever limits were loaded before.
C1_CountWithinLimit ==
    ev.op = "add" => Len(yo_history) <= yo_history_limit

\* C1 witness: an add that had to drop old entries to stay within a limit of 2.
C1_Witness ==
    /\ ev.op = "add"
    /\ obs.adds >= 3
    /\ yo_history_limit = 2
    /\ Len(yo_history) = 2

\* C2 (as claimed): immediately after every yo_history_add the token estimate
\* of the memory is at most the token budget.
C2_TokensWithinBudget ==
    ev.op = "add" => yo_estimate_tokens(yo_history) <= yo_token_budget

\* The newest n exchanges of the memory h.
Suffix(h, n) == SubSeq(h, Len(h) - n + 1, Len(h))

\* The lengths of the suffixes of h that fit the count limit before an add
\* (count <= limit - 1) and the token budget.
FittingSuffixes(h, limit, budget) ==
    { k \in 0 .. Len(h) :
        k <= limit - 1 /\ yo_estimate_tokens(Suffix(h, k)) <= budget }

\* C21: what an add keeps of the memory it found is the longest suffix that
\* fits count <= limit - 1 and the token budget, exchanges unchanged and in
\* order, and the new exchange is the newest entry after it.
C21_PruneKeepsLongestSuffix ==
    ev.op = "add" =>
        LET old  == ev.before
            kept == Len(yo_history) - 1
            fit  == FittingSuffixes(old, yo_history_limit, yo_token_budget)
        IN  /\ kept \in fit
            /\ \A k \in fit : k <= kept
            /\ SubSeq(yo_history, 1, kept) = Suffix(old, kept)
            /\ yo_history[Len(yo_history)] = ev.added

\* C21 witness: an add that dropped some but not all of a memory of three
\* exchanges because of the token budget, not of the count limit.
C21_Witness ==
    /\ ev.op = "add"
    /\ Len(ev.before) = 3
    /\ Len(yo_history) = 3
    /\ yo_history_limit > 3
    /\ ev.before[2] # ev.before[3]

(***************************************************************************)
(* SpecRing: the pump appends chunks to the ring, the shell reads and      *)
(* clears it.  obs.written is every byte appended since the last clear.    *)
(***************************************************************************)

RingBytes == {"a", "b", LF}

RingChunks == UNION { [1 .. n -> RingBytes] : n \in 1 .. MaxChunk }

\* max_lines arguments of rl_yo_get_scrollback
ReadArgs == {0, 1, 2, 200}

RingFrame ==
    UNCHANGED <<histVars, flagVars, sigVars, procVars, rlVars, turn, pc, yo_scrollback_enabled>>

InitRing ==
    /\ InitCommon
    /\ \E capacity \in 1 .. MaxRingCap :
          yo_scrollback = NewRing(capacity, YO_DEFAULT_SCROLLBACK_LINES)
    /\ yo_scrollback_enabled = TRUE
    /\ pc = "ring"

\* The pump forwards a chunk of output: yo_scrollback_append(buf, n).
RingAppend ==
    /\ pc = "ring"
    /\ \E chunk \in RingChunks :
          /\ Len(obs.written) + Len(chunk) <= MaxWritten
          /\ yo_scrollback' = yo_scrollback_append(yo_scrollback, chunk)
          /\ obs' = [obs EXCEPT !.written = @ \o chunk]
    /\ ev' = Ev("append")
    /\ UNCHANGED sb_result
    /\ RingFrame

\* yo_scrollback_clear()
RingClear ==
    /\ pc = "ring"
    /\ yo_scrollback' = yo_scrollback_clear(yo_scrollback)
    /\ obs' = [obs EXCEPT !.written = <<>>]
    /\ ev' = Ev("clear")
    /\ UNCHANGED sb_result
    /\ RingFrame

\* rl_yo_get_scrollback(max_lines)
RingRead ==
    /\ pc = "ring"
    /\ \E max_lines \in ReadArgs :
          /\ sb_result' = rl_yo_get_scrollback(yo_scrollback, yo_scrollback_enabled, max_lines)
          /\ ev' = EvRead(max_lines)
    /\ UNCHANGED <<yo_scrollback, obs>>
    /\ RingFrame

NextRing == RingAppend \/ RingClear \/ RingRead

SpecRing == InitRing /\ [][NextRing]_vars

Min(a, b) == IF a < b THEN a ELSE b

\* The last n elements of a sequence.
LastN(seq, n) == SubSeq(seq, Len(seq) - n + 1, Len(seq))

NewlineCount(seq) == Cardinality({i \in 1 .. Len(seq) : seq[i] = LF})

\* The number of lines a read with this argument may return.
EffectiveLines(max_lines) ==
    IF max_lines <= 0 THEN yo_scrollback.max_lines ELSE max_lines

\* C3: a read that follows appends of N bytes in total (none of them ESC or
\* NUL) into a ring of capacity C that was empty or just cleared, with max_lines
\* above the number of newlines held, returns the last min(N, C) bytes
\* appended, in write order.
C3_ReadReturnsLastBytes ==
    (/\ ev.op = "read"
     /\ NewlineCount(LastN(obs.written, Min(Len(obs.written), yo_scrollback.capacity)))
           < EffectiveLines(ev.max_lines))
    => sb_result = LastN(obs.written, Min(Len(obs.written), yo_scrollback.capacity))

\* C3 witness: a read after five bytes went into a 2-byte ring, so that the
\* writes wrapped around its end twice and the older of the two bytes kept
\* sits after the newer one in the buffer.
C3_Witness ==
    /\ ev.op = "read"
    /\ yo_scrollback.capacity = 2
    /\ Len(obs.written) = 5
    /\ yo_scrollback.write_pos = 1
    /\ sb_result = LastN(obs.written, 2)
    /\ sb_result[1] # sb_result[2]

(***************************************************************************)
(* Spec: the control loop. The editor waits for input (pc = "edit"); Enter *)
(* runs rl_yo_accept_line; a line that is no query goes to the shell       *)
(* (pc = "exec") until readline is called again, which runs the startup    *)
(* hook; a query or a hook body puts a request in flight (pc = "http") and *)
(* each HTTP outcome drives its handler on to the next request or to the   *)
(* dispatch.                                                               *)
(***************************************************************************)

\* Yo turns in one run
MaxTurns == 3

\* What the user may have in the line when pressing Enter, besides the line
\* the assistant prefilled.
TypedLines == {"", "ls", "yo q", "yo reset"}

\* Values of YO_HISTORY_LIMIT and YO_TOKEN_BUDGET while the loop runs.
LimitEnv == {NULL, "1"}
BudgetEnv == {NULL}

\* S_IFREG, and the permission bits 0ogt of an octal mode
S_IFREG == 32768
Mode(o, g, t) == o * 64 + g * 8 + t

KeyFiles ==
    { KeyFile(TRUE, S_IFREG + Mode(6, 0, 0), "sk-1"),
      KeyFile(TRUE, S_IFREG + Mode(6, 4, 4), "sk-1"),
      NoKeyFile }

\* A permission test that looks at the owner's bits only.
OwnerBits(st_mode) == ((st_mode % 512) \div 64) * 64

\* st.st_mode & 0777
PermissionBits(st_mode) == st_mode % 512

\* printf("%04o") of permission bits
Octal4(n) == "0" \o ToString(n \div 64) \o ToString((n \div 8) % 8) \o ToString(n % 8)

\* yo_load_api_key: the key, or NULL with a diagnostic.
yo_load_api_key(file) ==
    IF ~file.exists \/ PermissionBits(file.st_mode) # Mode(6, 0, 0) \/ file.text = ""
    THEN NULL ELSE file.text

\* The diagnostic yo_load_api_key prints when it returns NULL.
KeyDiagnostic(file) ==
    IF ~file.exists
    THEN "Create ~/.yoshkey with your Anthropic API key (mode 0600)"
    ELSE IF PermissionBits(file.st_mode) # Mode(6, 0, 0)
    THEN "~/.yoshkey must have mode 0600 (current: "
         \o Octal4(PermissionBits(file.st_mode)) \o ")"
    ELSE "~/.yoshkey is empty"

\* The values of rl_startup_hook and _rl_sigcleanup that belong to yo.c.
Hook == "yo_continuation_hook"
SigCleanup == "yo_continuation_sigcleanup"

\* What the pump appends while a command runs.
ShellOutputChunks == { <<"a", LF>> }

Init ==
    /\ InitCommon
    /\ yo_scrollback = NewRing(MaxRingCap, YO_DEFAULT_SCROLLBACK_LINES)
    /\ yo_scrollback_enabled = TRUE
    /\ pc = "edit"

\* A mark that is set whatever the accepted line is.
MarkAnyLine(h, line) ==
    IF yo_last_was_command /\ Len(h) > 0
    THEN [h EXCEPT ![Len(h)].executed = TRUE] ELSE h

\* A mark that is never set.
MarkNever(h, line) == h

\* rl_yo_accept_line 1450-1457: the newest exchange is marked executed when
\* the line accepted after a command is no query.
MarkExecuted(h, line) ==
    IF yo_last_was_command /\ ~HasPrefix(line, "yo ") /\ Len(h) > 0
    THEN [h EXCEPT ![Len(h)].executed = TRUE] ELSE h

\* A hook installed for an empty line too.
InstallOnAnyLine(line) ==
    yo_last_was_command /\ ~HasPrefix(line, "yo ") /\ yo_continuation_active

\* A hook installed for a new query too.
InstallOnYoLine(line) ==
    yo_last_was_command /\ yo_continuation_active /\ line # ""

\* rl_yo_accept_line 1450-1469: whether the continuation hook is installed.
ShouldInstallHook(line) ==
    /\ yo_last_was_command
    /\ ~HasPrefix(line, "yo ")
    /\ yo_continuation_active /\ line # ""

\* The first locals of a turn.
StartTurn(kind, query) ==
    [NoTurn EXCEPT !.kind = kind, !.query = query, !.stage = "initial",
                   !.max_turns = 3]

\* rl_yo_accept_line up to its first request: the bookkeeping of the previous
\* command, the plain line, "yo reset", the reload of the limits and the key.
\* lines are the lines the user may type, files the states of ~/.yoshkey.
AcceptLineOf(lines, files, max_turns) ==
    /\ pc = "edit"
    /\ UNCHANGED <<sigVars, procVars>>
    /\ \E line \in lines \cup {rl_line_buffer} :
        LET yo_line == HasPrefix(line, "yo ")
            n == Len(yo_history)
            h1 == MarkExecuted(yo_history, line)
            install == ShouldInstallHook(line)
            active1 == IF yo_last_was_command THEN install
                       ELSE yo_continuation_active
            e == [Ev("accept") EXCEPT
                    !.line = line, !.awaited = obs.await, !.cleaned = obs.cleaned,
                    !.flipped = (n > 0 /\ ~yo_history[n].executed /\ h1[n].executed)]
            o == [obs EXCEPT
                    !.await = FALSE, !.cleaned = FALSE,
                    !.owed = IF obs.await /\ yo_continuation_active
                                /\ line # "" /\ ~yo_line
                             THEN @ + 1 ELSE @,
                    !.plan = IF ~yo_line /\ line # "" /\ @ \in {1, 3}
                             THEN @ + 1 ELSE 0,
                    !.interrupted = @ /\ ~yo_line,
                    !.hook_before = IF install THEN rl_startup_hook ELSE @,
                    !.len_before = n, !.nreq = 0, !.first = <<>>]
        IN  /\ yo_last_executed_command' =
                  IF install THEN line ELSE yo_last_executed_command
            /\ yo_saved_startup_hook' =
                  IF install THEN rl_startup_hook ELSE yo_saved_startup_hook
            /\ rl_startup_hook' = IF install THEN Hook ELSE rl_startup_hook
            /\ yo_last_was_command' = FALSE
            /\ UNCHANGED <<yo_cancelled, rl_sigcleanup, yo_scrollback_enabled, sb_result>>
            /\ IF ~yo_line
               THEN \* rl_newline: the line goes to the shell
                    /\ yo_history' = h1
                    /\ yo_continuation_active' = active1
                    /\ rl_line_buffer' = line
                    /\ pc' = "exec"
                    /\ ev' = e
                    /\ obs' = o
                    /\ UNCHANGED <<yo_history_limit, yo_token_budget, yo_scrollback, turn>>
               ELSE IF line = "yo reset"
               THEN /\ yo_history' = rl_yo_clear_history(h1)
                    /\ yo_scrollback' = yo_scrollback_clear(yo_scrollback)
                    /\ yo_continuation_active' = FALSE
                    /\ rl_line_buffer' = ""
                    /\ pc' = "edit"
                    /\ ev' = [e EXCEPT !.op = "reset",
                                       !.ring_before = yo_scrollback.data_size]
                    /\ obs' = [o EXCEPT !.sn = <<>>]
                    /\ UNCHANGED <<yo_history_limit, yo_token_budget, turn>>
               ELSE /\ obs.turns < max_turns
                    /\ \E limit_env \in LimitEnv, budget_env \in BudgetEnv,
                          file \in files :
                        /\ yo_history_limit' = ReloadHistoryLimit(limit_env)
                        /\ yo_token_budget' = ReloadTokenBudget(budget_env)
                        /\ yo_history' = h1
                        /\ yo_continuation_active' = active1
                        /\ UNCHANGED yo_scrollback
                        /\ IF yo_load_api_key(file) = NULL
                           THEN /\ rl_line_buffer' = ""
                                /\ pc' = "edit"
                                /\ turn' = NoTurn
                                /\ ev' = [e EXCEPT !.ended = TRUE, !.kind = "accept",
                                                   !.outcome = "error", !.err = "key",
                                                   !.file = file, !.before = yo_history,
                                                   !.printed = KeyDiagnostic(file)]
                                /\ obs' = o
                           ELSE /\ rl_line_buffer' = line
                                /\ pc' = "http"
                                /\ turn' = StartTurn("accept", line)
                                /\ ev' = [e EXCEPT !.file = file, !.before = yo_history]
                                /\ obs' = [o EXCEPT !.turns = @ + 1]

AcceptLineWith(files, max_turns) == AcceptLineOf(TypedLines, files, max_turns)

\* rl_yo_accept_line in the control loop
AcceptLine == AcceptLineWith(KeyFiles, MaxTurns)

\* The code fence of the continuation query: three backquotes in the source,
\* written with a character that a TLA+ string can hold.
Fence == "~~~"

\* The query of a continuation turn (yo_continuation_hook 1303-1319).
ContQuery(suggested, executed_command, scrollback) ==
    IF suggested # NULL /\ executed_command # NULL /\ suggested # executed_command
    THEN "[continuation] You suggested: " \o suggested
         \o "\nThe user edited and executed: " \o executed_command
         \o "\nHere is the terminal output:\n" \o Fence \o "\n" \o scrollback \o "\n" \o Fence
    ELSE "[continuation] The user executed the previous command. "
         \o "Here is the terminal output:\n" \o Fence \o "\n" \o scrollback \o "\n" \o Fence

\* A hook that uninstalls itself and puts no callback back.
HookUninstallOnly ==
    /\ rl_startup_hook' = NULL
    /\ yo_saved_startup_hook' = NULL

\* yo_continuation_hook 1275-1277: the hook uninstalls itself and restores
\* the startup hook that was installed before it.
HookUninstall ==
    /\ rl_startup_hook' = yo_saved_startup_hook
    /\ yo_saved_startup_hook' = NULL

\* yo_continuation_hook up to its first request: it uninstalls itself,
\* checks that the continuation is still active, loads the key and builds
\* the continuation query from fresh scrollback.
ContinuationHook ==
            /\ HookUninstall
            /\ IF ~yo_continuation_active
               THEN /\ pc' = "edit"
                    /\ ev' = Ev("readline")
                    /\ obs' = [obs EXCEPT !.plan = 0]
                    /\ UNCHANGED <<yo_continuation_active, yo_last_executed_command,
                                   sb_result, turn>>
               ELSE /\ obs.turns < MaxTurns
                    /\ \E file \in KeyFiles :
                        LET sb == rl_yo_get_scrollback(yo_scrollback,
                                                       yo_scrollback_enabled, 200)
                            scrollback == IF sb = <<>> THEN "(no output)" ELSE Join(sb)
                            n == Len(yo_history)
                            suggested == IF n > 0 THEN yo_history[n].response ELSE NULL
                            e == [Ev("readline") EXCEPT !.hook_body = TRUE]
                            o == [obs EXCEPT !.owed = @ - 1, !.len_before = n,
                                             !.nreq = 0, !.first = <<>>]
                        IN  IF yo_load_api_key(file) = NULL
                            THEN /\ yo_continuation_active' = FALSE
                                 /\ pc' = "edit"
                                 /\ ev' = [e EXCEPT !.ended = TRUE, !.kind = "hook",
                                                    !.outcome = "error", !.err = "key"]
                                 /\ obs' = [o EXCEPT !.plan = 0]
                                 /\ UNCHANGED <<yo_last_executed_command, sb_result, turn>>
                            ELSE /\ sb_result' = sb
                                 /\ yo_last_executed_command' = NULL
                                 /\ pc' = "http"
                                 /\ turn' = StartTurn("hook",
                                        ContQuery(suggested, yo_last_executed_command,
                                                  scrollback))
                                 /\ ev' = e
                                 /\ obs' = [o EXCEPT !.turns = @ + 1]
                                 /\ UNCHANGED yo_continuation_active

\* The shell calls readline for the next prompt: the line starts empty and
\* readline calls the startup hook that is installed.
ReadlineStart ==
    /\ pc = "exec"
    /\ UNCHANGED <<sigVars, procVars>>
    /\ rl_line_buffer' = ""
    /\ UNCHANGED <<yo_history, yo_history_limit, yo_token_budget, yo_last_was_command,
                   yo_cancelled, rl_sigcleanup, yo_scrollback, yo_scrollback_enabled>>
    /\ IF rl_startup_hook = Hook
       THEN ContinuationHook
       ELSE /\ pc' = "edit"
            /\ ev' = Ev("readline")
            /\ obs' = [obs EXCEPT !.plan = 0]
            /\ UNCHANGED <<yo_continuation_active, yo_saved_startup_hook,
                           yo_last_executed_command, rl_startup_hook, sb_result, turn>>

\* The pump appends what the running command printed (yo_pump_loop). Here
\* the output stops before the ring wraps; SpecRing covers the wrapping.
ShellOutput ==
    /\ pc = "exec"
    /\ UNCHANGED <<sigVars, procVars>>
    /\ \E chunk \in ShellOutputChunks :
          /\ yo_scrollback.data_size + Len(chunk) <= yo_scrollback.capacity
          /\ yo_scrollback' = yo_scrollback_append(yo_scrollback, chunk)
    /\ ev' = Ev("output")
    /\ UNCHANGED <<histVars, flagVars, rlVars, yo_scrollback_enabled,
                   sb_result, pc, turn, obs>>

\* A cleanup that forgets to clear yo_last_was_command.
SigcleanupKeepsCommand(sig, active, last_was_command) ==
    IF sig = "SIGINT" THEN [active |-> FALSE, last_was_command |-> last_was_command]
    ELSE [active |-> active, last_was_command |-> last_was_command]

\* A cleanup that forgets to disarm the continuation.
SigcleanupKeepsActive(sig, active, last_was_command) ==
    IF sig = "SIGINT" THEN [active |-> active, last_was_command |-> FALSE]
    ELSE [active |-> active, last_was_command |-> last_was_command]

\* yo_continuation_sigcleanup: the two flags after the cleanup.
yo_continuation_sigcleanup(sig, active, last_was_command) ==
    IF sig = "SIGINT" THEN [active |-> FALSE, last_was_command |-> FALSE]
    ELSE [active |-> active, last_was_command |-> last_was_command]

\* Ctrl-C while the editor waits: readline runs the registered cleanup once,
\* forgets it, and starts over with an empty line.
EditorSigint ==
    /\ pc = "edit"
    /\ UNCHANGED <<sigVars, procVars>>
    /\ LET registered == rl_sigcleanup = SigCleanup
           c == yo_continuation_sigcleanup("SIGINT", yo_continuation_active,
                                           yo_last_was_command)
       IN  /\ yo_continuation_active' =
                 IF registered THEN c.active ELSE yo_continuation_active
           /\ yo_last_was_command' =
                 IF registered THEN c.last_was_command ELSE yo_last_was_command
           /\ obs' = [obs EXCEPT !.cleaned = @ \/ (registered /\ obs.await),
                                 !.interrupted = @ \/ yo_continuation_active,
                                 !.plan = 0]
    /\ rl_sigcleanup' = NULL
    /\ rl_line_buffer' = ""
    /\ ev' = Ev("sigint")
    /\ UNCHANGED <<histVars, yo_saved_startup_hook, yo_last_executed_command,
                   yo_cancelled, rl_startup_hook, ringVars, pc, turn>>

\* One HTTP exchange as the transport sees it: how it ended, whether SIGINT
\* arrived while the transport's handler was installed, and the content
\* array of a well-formed 200 reply.
Http(kind, sigint, content) == [kind |-> kind, sigint |-> sigint, content |-> content]

CmdPlain == CommandTool("t1", "ls", "list", FALSE)
CmdPending == CommandTool("t2", "mk", "build", TRUE)
CmdPendingBare == CommandTool("t2", "mk", NULL, TRUE)
CmdEmptyExpl == CommandTool("t1", "ls", "", FALSE)
CmdPendingNoId == CommandTool(NULL, "mk", NULL, TRUE)
CmdNoCommand == CommandTool("t1", "", "list", FALSE)
ChatReply == ChatTool("t3", "hi")

\* The replies of the model: each tool alone, a tool-use without a name, a
\* text-only reply, an empty content array, and two tool-uses after a text.
Replies ==
    { <<ToolUseBlock(CmdPlain)>>, <<ToolUseBlock(CmdPending)>>,
      <<ToolUseBlock(CmdPendingBare)>>, <<ToolUseBlock(CmdEmptyExpl)>>,
      <<ToolUseBlock(CmdPendingNoId)>>, <<ToolUseBlock(ChatReply)>>,
      <<ToolUseBlock(CmdNoCommand)>>,
      <<ToolUseBlock(ScrollbackTool("t4", TRUE, Double(2, 0)))>>,
      <<ToolUseBlock(DocsTool("t5"))>>,
      <<ToolUseBlock(ToolUse(NULL, "t6", TRUE, NULL, NULL, FALSE, NULL, FALSE, NoLines))>>,
      <<TextBlock("hello")>>,
      <<>>,
      <<TextBlock("so"), ToolUseBlock(ChatReply), ToolUseBlock(CmdPending)>> }

\* Replies that came with a SIGINT the loop did not see: the handler ran
\* after the last perform and before the old disposition was put back.
LateSigintReplies ==
    { <<ToolUseBlock(CmdPlain)>>, <<ToolUseBlock(CmdPendingNoId)>> }

HttpOutcomes ==
    { Http("ok", FALSE, c) : c \in Replies }
        \cup { Http("ok", TRUE, c) : c \in LateSigintReplies }
        \cup { Http("curl_error", FALSE, <<>>), Http("http_status", FALSE, <<>>),
               Http("parse_error", FALSE, <<>>), Http("cancelled", TRUE, <<>>),
               Http("curl_error", TRUE, <<>>) }

\* The handler goes on to another request.
InFlight(t, sb, e, o) ==
    /\ pc' = "http"
    /\ turn' = t
    /\ sb_result' = sb
    /\ ev' = e
    /\ obs' = o
    /\ UNCHANGED <<yo_history, yo_last_was_command, yo_continuation_active,
                   rl_line_buffer, rl_sigcleanup>>

\* The turn's bookkeeping in obs when the turn is over.
TurnOver(o) == [o EXCEPT !.nreq = 0, !.first = <<>>]

\* The bookkeeping in obs and ev when the turn ends.
TurnEnd(o) == [TurnOver(o) EXCEPT !.follow = 0, !.repairs = 0, !.needed = FALSE]

EvEnd(t, e, o) ==
    [e EXCEPT !.ended = TRUE, !.query = t.query, !.exhausted = (o.follow = 3),
              !.repairs = o.repairs, !.needed = o.needed]

\* What the user reads for each error that ends a turn after its first
\* request; the transport prints its own diagnostic before it returns none.
Diagnostic(err) ==
    CASE err = "cancelled"  -> "Cancelled"
      [] err = "scrollback" -> "Too many scrollback requests"
      [] err = "unknown"    -> "Unknown response type from Claude"
      [] err = "requests"   -> NULL
      [] OTHER              -> err

\* Error returns that leave the continuation as it is.
ErrorKeepsContinuation(kind, active) == active

\* yo_continuation_active after an error return: yo_continuation_hook
\* clears it (1340, 1350, 1361, 1372), rl_yo_accept_line leaves it alone.
ContinuationAfterError(kind, active) == IF kind = "hook" THEN FALSE ELSE active

\* The error returns of both handlers after the first request: the line is
\* cleared by rl_yo_accept_line, the continuation by yo_continuation_hook.
TurnError(t, err, e, o) ==
    /\ rl_line_buffer' = IF t.kind = "accept" THEN "" ELSE rl_line_buffer
    /\ yo_continuation_active' = ContinuationAfterError(t.kind, yo_continuation_active)
    /\ pc' = "edit"
    /\ turn' = NoTurn
    /\ ev' = [EvEnd(t, e, o) EXCEPT !.outcome = "error", !.err = err,
                                    !.printed = Diagnostic(err)]
    /\ obs' = [TurnEnd(o) EXCEPT !.plan = 0]
    /\ UNCHANGED <<yo_history, yo_last_was_command, rl_sigcleanup, sb_result>>

\* An exchange stored as executed whatever the tool is.
ExecutedAlways(type) == TRUE

\* The executed argument of the dispatch's yo_history_add: 0 for a command
\* (1610, 1393), 1 for a chat reply (1634, 1408).
ExecutedAtDispatch(type) == type = "chat"

\* A dispatch that stores an exchange whatever the tool is.
DispatchAddsAlways(type) == TRUE

\* The tools whose dispatch calls yo_history_add.
DispatchAdds(type) == type \in {"command", "chat"}

\* A dispatch that arms the continuation for every command.
ArmsAlways(p) == TRUE

\* yo_continuation_active after the dispatch of a command (1620, 1401).
ArmsContinuation(p) == p.pending

\* The dispatch at the end of rl_yo_accept_line (1599-1656) and of
\* yo_continuation_hook (1387-1417).
Dispatch(t, e, o) ==
    LET p == t.parsed
        is_command == p.type = "command"
        adds == DispatchAdds(p.type)
        h2 == IF adds
              THEN yo_history_add(yo_history, yo_history_limit, yo_token_budget,
                       Exchange(t.query, p.type, p.content, p.tool_use_id,
                                ExecutedAtDispatch(p.type), is_command /\ p.pending))
              ELSE yo_history
        dropped == Len(yo_history) + 1 - Len(h2)
        o2 == [TurnEnd(o) EXCEPT
                 !.sn = IF adds THEN Append(SubSeq(@, dropped + 1, Len(@)), o.turns)
                        ELSE @]
        e2 == [EvEnd(t, e, o) EXCEPT !.tool = t.tool_use]
    IN  /\ yo_history' = h2
        /\ turn' = NoTurn
        /\ UNCHANGED sb_result
        /\ IF is_command
           THEN /\ rl_line_buffer' = p.content
                /\ yo_last_was_command' = TRUE
                /\ yo_continuation_active' = ArmsContinuation(p)
                /\ rl_sigcleanup' = IF p.pending THEN SigCleanup ELSE rl_sigcleanup
                /\ pc' = "edit"
                /\ ev' = [e2 EXCEPT !.outcome = "command"]
                /\ obs' = [o2 EXCEPT
                             !.await = TRUE, !.cleaned = FALSE,
                             !.plan = IF t.kind = "accept" /\ p.pending THEN 1
                                      ELSE IF t.kind = "hook" /\ @ = 2 /\ ~p.pending
                                      THEN 3 ELSE 0]
           ELSE IF p.type = "chat"
           THEN /\ rl_line_buffer' = ""
                /\ yo_continuation_active' = FALSE
                /\ pc' = "edit"
                /\ ev' = [e2 EXCEPT !.outcome = "chat"]
                /\ obs' = [o2 EXCEPT !.plan = 0]
                /\ UNCHANGED <<yo_last_was_command, rl_sigcleanup>>
           ELSE IF t.kind = "hook"
           THEN \* a request for scrollback or docs after the turns ran out
                /\ rl_line_buffer' = ""
                /\ yo_continuation_active' = FALSE
                /\ pc' = "edit"
                /\ ev' = [e2 EXCEPT !.outcome = "error", !.err = "requests",
                                    !.printed = Diagnostic("requests")]
                /\ obs' = [o2 EXCEPT !.plan = 0]
                /\ UNCHANGED <<yo_last_was_command, rl_sigcleanup>>
           ELSE IF p.type = "scrollback"
           THEN /\ rl_line_buffer' = ""
                /\ pc' = "edit"
                /\ ev' = [e2 EXCEPT !.outcome = "error", !.err = "scrollback",
                                    !.printed = Diagnostic("scrollback")]
                /\ obs' = [o2 EXCEPT !.plan = 0]
                /\ UNCHANGED <<yo_last_was_command, yo_continuation_active,
                               rl_sigcleanup>>
           ELSE \* "Unknown response type": the message prints the tool-use
                \* that line 1593 freed, which the process may not survive;
                \* the line is left as it was.
                /\ \E survives \in BOOLEAN :
                      pc' = IF survives THEN "edit" ELSE "crashed"
                /\ ev' = [e2 EXCEPT !.outcome = "error", !.err = "unknown",
                                    !.printed = Diagnostic("unknown")]
                /\ obs' = [o2 EXCEPT !.plan = 0]
                /\ UNCHANGED <<rl_line_buffer, yo_last_was_command,
                               yo_continuation_active, rl_sigcleanup>>

\* yo_handle_explanation_retry 1218: a command without a shown explanation.
NeedsExplanation(p) ==
    p.type = "command" /\ (p.explanation = NULL \/ p.explanation = "")

\* After yo_handle_requests: the explanation retry, which rl_yo_accept_line
\* makes for pending commands only and yo_continuation_hook for all, or the
\* dispatch. yo_retry_for_explanation sends nothing for a tool-use without
\* a string id, and then yo_cancelled still has the last request's value.
ExplainOrDispatch(t, cancelled, e, o) ==
    LET on == [o EXCEPT !.needed = NeedsExplanation(t.parsed)]
    IN
    IF (t.kind = "hook" \/ t.parsed.pending) /\ NeedsExplanation(t.parsed)
    THEN IF t.tool_use.tool_use.id = NULL
         THEN IF cancelled THEN TurnError(t, "cancelled", e, on)
              ELSE Dispatch(t, e, on)
         ELSE InFlight([t EXCEPT !.stage = "explain", !.is_retry = FALSE],
                       sb_result, e, [TurnOver(on) EXCEPT !.repairs = @ + 1])
    ELSE Dispatch(t, e, on)

\* A loop that goes round once more when no turn is left.
MoreTurnsInclusive(max_turns) == max_turns >= 0

\* The loop condition of yo_handle_requests (1118).
MoreTurns(max_turns) == max_turns > 0

\* lines_requested of yo_handle_requests (1134-1136)
LinesRequested(saved_content) ==
    LET asked == Atoi(saved_content)
    IN  IF asked <= 0 THEN 50 ELSE IF asked > 1000 THEN 1000 ELSE asked

\* yo_handle_requests 1138-1143: the text sent as the tool result, given
\* what rl_yo_get_scrollback returned.
ScrollbackData(s) == IF Len(s) = 0 THEN "(No terminal output available)" ELSE Join(s)

\* yo_handle_requests: while turns are left, a scrollback or docs request is
\* answered by a follow-up request.
HandleRequests(t, cancelled, e, o) ==
    LET lines_requested == LinesRequested(t.parsed.content)
        follow == [t EXCEPT !.is_retry = FALSE, !.tool_use = None,
                            !.parsed = ParseFailed]
    IN  IF MoreTurns(t.max_turns) /\ t.parsed.type = "scrollback"
        THEN LET scrollback == rl_yo_get_scrollback(yo_scrollback, yo_scrollback_enabled,
                                                    lines_requested)
             IN  InFlight([follow EXCEPT !.stage = "scrollback",
                                         !.scrollback_data = ScrollbackData(scrollback)],
                          scrollback, e, [TurnOver(o) EXCEPT !.follow = @ + 1])
        ELSE IF MoreTurns(t.max_turns) /\ t.parsed.type = "docs"
        THEN InFlight([follow EXCEPT !.stage = "docs"], sb_result, e,
                      [TurnOver(o) EXCEPT !.follow = @ + 1])
        ELSE ExplainOrDispatch(t, cancelled, e, o)

\* What the handler does with the result of a transport call.
Returned(t, result, cancelled, e, o) ==
    LET p == yo_parse_response(result)
        er == [e EXCEPT !.repair_failed = ~result.some, !.result = result]
    IN  IF t.stage = "explain"
        THEN IF ~result.some /\ cancelled
             THEN TurnError(t, "cancelled", er, o)
             ELSE IF p.ok /\ p.type = "command"
                     /\ p.explanation # NULL /\ p.explanation # ""
             THEN Dispatch([t EXCEPT !.tool_use = result, !.parsed = p], er, o)
             ELSE Dispatch(t, er, o)
        ELSE IF ~result.some THEN TurnError(t, "transport", e, o)
        ELSE IF ~p.ok THEN TurnError(t, "parse", e, o)
        ELSE HandleRequests(
                 [t EXCEPT !.tool_use = result, !.parsed = p,
                           !.scrollback_data = NULL,
                           !.max_turns = IF t.stage = "initial" THEN @ ELSE @ - 1],
                 cancelled, e, o)

\* What yo_call_claude_with_messages_internal does with one HTTP outcome:
\* every failure returns none, a well-formed reply is normalised.
TransportStep(resp, is_retry) ==
    IF resp.kind = "ok" THEN Normalise(resp.content, is_retry)
    ELSE [reissue |-> FALSE, result |-> None]

\* One HTTP exchange of yo_call_claude_with_messages_internal ends: the
\* transport asks again when the reply holds several tool-uses, or returns
\* and the handler runs on to its next request or to the end of the turn.
\* detail: whether ev keeps the reply, the stage it answered and the
\* number of HTTP exchanges the turn has made.
HttpResponseWith(detail) ==
    /\ pc = "http"
    /\ UNCHANGED <<yo_history_limit, yo_token_budget, yo_saved_startup_hook,
                   yo_last_executed_command, rl_startup_hook, yo_scrollback,
                   yo_scrollback_enabled>>
    /\ \E resp \in HttpOutcomes :
        LET step == TransportStep(resp, turn.is_retry)
            o == [obs EXCEPT !.nreq = @ + 1,
                             !.first = IF turn.is_retry THEN @ ELSE resp.content]
            e == IF detail
                 THEN [Ev("http") EXCEPT !.kind = turn.kind, !.stage = turn.stage,
                                         !.nreq = ev.nreq + 1,
                                         !.last = resp.content,
                                         !.last_ok = (resp.kind = "ok" /\ ~resp.sigint)]
                 ELSE [Ev("http") EXCEPT !.kind = turn.kind]
        IN  /\ yo_cancelled' = resp.sigint
            /\ yo_sigint_pipe' = PipeAfterCall(resp.sigint)
            /\ UNCHANGED <<sigint_handler, procVars>>
            /\ IF step.reissue
               THEN InFlight([turn EXCEPT !.is_retry = TRUE], sb_result, e, o)
               ELSE Returned(turn, step.result, resp.sigint, e, o)

HttpResponse == HttpResponseWith(FALSE)

Next ==
    \/ AcceptLine
    \/ ReadlineStart
    \/ ShellOutput
    \/ EditorSigint
    \/ HttpResponse

Spec == Init /\ [][Next]_vars

(***************************************************************************)
(* Properties of the control loop                                          *)
(***************************************************************************)

\* The last step accepted a line while a dispatched command was waiting.
AcceptedAfterDispatch == ev.op \in {"accept", "reset"} /\ ev.awaited

\* C4 as the spec states it: the command exchange that was dispatched is
\* marked executed by the next accepted line exactly when that line does not
\* begin with "yo ", whatever happened in the editor in between.
C4_ExecutedIffNextLineNotYo ==
    AcceptedAfterDispatch => (ev.flipped <=> ~HasPrefix(ev.line, "yo "))

\* One step of the amended C4: the accept after a dispatch flips the flag
\* exactly when the line is no query and no SIGINT cleanup ran in between,
\* and no other step ever turns the executed flag of a stored exchange from
\* false to true (exchanges are followed by their serial numbers).
C4_Step ==
    /\ (ev'.op \in {"accept", "reset"} /\ ev'.awaited)
          => (ev'.flipped <=> (~HasPrefix(ev'.line, "yo ") /\ ~ev'.cleaned))
    /\ \A i \in 1..Len(yo_history) : \A j \in 1..Len(yo_history') :
          (/\ obs.sn[i] = obs'.sn[j]
           /\ ~yo_history[i].executed
           /\ yo_history'[j].executed)
          => (/\ ev'.op = "accept" /\ ev'.awaited /\ ~ev'.cleaned
              /\ ~HasPrefix(ev'.line, "yo ")
              /\ i = Len(yo_history))

\* C4 (amended): a dispatched command exchange goes from executed = false to
\* executed = true if and only if the next line accepted after the dispatch
\* does not begin with "yo " and the SIGINT cleanup did not run between the
\* dispatch and that accept.
C4_ExecutedIffAcceptedUncleaned == [][C4_Step]_vars

\* C4 witness: after a dispatch the user typed another command over the
\* prefilled one and accepted it, and the newest exchange became executed.
C4_Witness ==
    /\ AcceptedAfterDispatch
    /\ ev.line = "ls" /\ ev.flipped /\ ~ev.cleaned
    /\ Len(yo_history) > 0
    /\ yo_history[Len(yo_history)].response = "mk"
    /\ yo_history[Len(yo_history)].executed

\* C5 as the spec states it: a turn in which an error occurred, a failed
\* explanation-repair request included, leaves the number of stored
\* exchanges as it was.
C5_AnyErrorKeepsCount ==
    (ev.ended /\ (ev.outcome = "error" \/ ev.repair_failed))
        => Len(yo_history) = obs.len_before

\* C5 (amended): a turn that an error ends (credential failure, transport,
\* cancellation, protocol or parse error of the first request or of a
\* sub-request, too many sub-requests, unknown tool, cancellation of the
\* explanation-repair request) leaves the number of stored exchanges as it
\* was.
C5_ErrorTurnKeepsCount ==
    (ev.ended /\ ev.outcome = "error") => Len(yo_history) = obs.len_before

\* C5 witness: a continuation turn that ran out of sub-requests, with one
\* exchange in memory before and after.
C5_Witness ==
    /\ ev.ended /\ ev.outcome = "error" /\ ev.err = "requests"
    /\ ev.kind = "hook"
    /\ obs.len_before = 1 /\ Len(yo_history) = 1

\* C7: after a final dispatch the continuation is active exactly when the
\* dispatched tool was a command with pending = true; a command that is not
\* pending leaves "last was command" set, a chat leaves the continuation
\* off, and a pending command dispatched by the hook arms it again.
C7_ArmedIffPendingCommand ==
    (ev.ended /\ ev.outcome \in {"command", "chat"}) =>
        LET tool == ev.tool.tool_use
            pending_command == tool.name = "command" /\ tool.pending
        IN  /\ yo_continuation_active <=> pending_command
            /\ (tool.name = "command" /\ ~tool.pending)
                  => (yo_last_was_command /\ ~yo_continuation_active)
            /\ tool.name = "chat" => ~yo_continuation_active
            /\ (ev.kind = "hook" /\ pending_command)
                  => (yo_continuation_active /\ yo_last_was_command
                      /\ rl_sigcleanup = SigCleanup)

\* C7 witness: the hook dispatched another pending command.
C7_Witness ==
    /\ ev.ended /\ ev.kind = "hook" /\ ev.outcome = "command"
    /\ ev.tool.tool_use.pending
    /\ yo_continuation_active

\* C8: the hook body has run once for every accepted non-empty line that
\* executed an armed pending command, and never otherwise: one run is due
\* exactly while that line is with the shell and the hook is installed, and
\* none is due, and the hook is gone, whenever the editor takes input.
C8_HookRunsOncePerExecution ==
    /\ obs.owed = IF pc = "exec" /\ rl_startup_hook = Hook THEN 1 ELSE 0
    /\ pc = "edit" => rl_startup_hook # Hook

\* C8 witness: the second hook body of a plan, after the first one armed
\* the continuation again and the user executed its command.
C8_Witness ==
    /\ ev.op = "readline" /\ ev.hook_body
    /\ pc = "http" /\ turn.kind = "hook"
    /\ obs.turns = 3
    /\ Len(yo_history) = 2
    /\ yo_history[1].pending /\ yo_history[2].pending

\* C9: at the end of the two-step plan (c1 pending dispatched by a yo turn
\* and executed, c2 not pending dispatched by the hook and executed) the
\* continuation is off and the two newest exchanges are the commands c1 and
\* c2, both executed, when the limit allows two exchanges.
C9_PlanEndsExecuted ==
    (obs.plan = 4 /\ yo_history_limit >= 2) =>
        LET n == Len(yo_history)
        IN  /\ ~yo_continuation_active
            /\ n >= 2
            /\ yo_history[n - 1].response_type = "command"
            /\ yo_history[n].response_type = "command"
            /\ yo_history[n - 1].pending /\ ~yo_history[n].pending
            /\ yo_history[n - 1].executed /\ yo_history[n].executed

\* C9 witness: the plan ran to its end with room for both exchanges.
C9_Witness ==
    /\ obs.plan = 4 /\ yo_history_limit >= 2
    /\ Len(yo_history) = 2
    /\ yo_history[1].response = "mk" /\ yo_history[2].response = "ls"

\* C10: once SIGINT hit the editor while the continuation was armed, both
\* flags are clear and stay clear, the hook is neither installed nor run and
\* no request is in flight, until the user enters a new query.
C10_SigintDisarms ==
    obs.interrupted =>
        /\ ~yo_continuation_active /\ ~yo_last_was_command
        /\ rl_startup_hook # Hook
        /\ ~ev.hook_body
        /\ pc \in {"edit", "exec"}

\* C10 witness: after the interrupt the user ran a command and the next
\* prompt came up without the hook.
C10_Witness ==
    /\ obs.interrupted
    /\ ev.op = "readline" /\ pc = "edit"
    /\ Len(yo_history) > 0
    /\ yo_history[Len(yo_history)].pending
    /\ ~yo_history[Len(yo_history)].executed

(***************************************************************************)
(* SpecCall: one transport call after another, each fed arbitrary HTTP     *)
(* outcomes, with the requests it made and what it returned on record.     *)
(***************************************************************************)

\* Replies beside those of the control loop: two and three tool-uses in
\* other orders and kinds, a block of another type, a text block without text before
\* one with text, and a block without a type.
CallReplies ==
    Replies \cup
    { <<ToolUseBlock(DocsTool("t5")), ToolUseBlock(ChatReply)>>,
      <<ToolUseBlock(CmdPlain), TextBlock("x"), ToolUseBlock(CmdPending),
        ToolUseBlock(ChatReply)>>,
      <<Block("thinking", NULL, DocsTool(NULL))>>,
      <<TextBlock(NULL), TextBlock("later")>>,
      <<Block(NULL, "lost", CmdPlain), TextBlock("kept")>>,
      <<ToolUseBlock(ChatReply), ToolUseBlock(CmdPlain)>>,
      <<TextBlock("x"), ToolUseBlock(ScrollbackTool("t4", TRUE, Double(5, 0))),
        ToolUseBlock(CmdEmptyExpl)>> }

CallOutcomes ==
    { Http("ok", FALSE, c) : c \in CallReplies }
        \cup { Http("curl_error", FALSE, <<>>), Http("http_status", FALSE, <<>>),
               Http("parse_error", FALSE, <<>>), Http("cancelled", TRUE, <<>>) }

CallFrame ==
    UNCHANGED <<histVars, yo_last_was_command, yo_continuation_active,
                yo_saved_startup_hook, yo_last_executed_command, rlVars, ringVars,
                procVars>>

InitCall ==
    /\ InitCommon
    /\ yo_scrollback = NoRing
    /\ yo_scrollback_enabled = FALSE
    /\ pc = "call"

\* One HTTP exchange of the call in progress ends.
CallResponse ==
    /\ pc = "call"
    /\ \E resp \in CallOutcomes :
        LET step == TransportStep(resp, turn.is_retry)
            o == [obs EXCEPT !.nreq = @ + 1,
                             !.first = IF turn.is_retry THEN @ ELSE resp.content]
        IN  /\ yo_cancelled' = resp.sigint
            /\ yo_sigint_pipe' = PipeAfterCall(resp.sigint)
            /\ UNCHANGED sigint_handler
            /\ obs' = o
            /\ IF step.reissue
               THEN /\ pc' = "call"
                    /\ turn' = [turn EXCEPT !.is_retry = TRUE]
                    /\ ev' = Ev("http")
               ELSE /\ pc' = "returned"
                    /\ turn' = [turn EXCEPT !.tool_use = step.result]
                    /\ ev' = [Ev("http") EXCEPT
                                !.returned = TRUE, !.nreq = o.nreq,
                                !.first = o.first,
                                !.first_ok = turn.is_retry \/ resp.kind = "ok",
                                !.last = resp.content, !.last_ok = resp.kind = "ok",
                                !.result = step.result]
    /\ CallFrame

\* The caller makes its next call (yo_call_claude 1909: the pipe is drained
\* and yo_cancelled reset).
CallStart ==
    /\ pc = "returned"
    /\ pc' = "call"
    /\ turn' = NoTurn
    /\ yo_cancelled' = FALSE
    /\ yo_sigint_pipe' = 0
    /\ UNCHANGED sigint_handler
    /\ obs' = TurnOver(obs)
    /\ ev' = Ev("call")
    /\ CallFrame

NextCall ==
    \/ CallResponse
    \/ CallStart

SpecCall == InitCall /\ [][NextCall]_vars

\* The first tool-use block of a content array that holds one.
FirstToolUse(content) == BlocksOf(content, "tool_use")[1].tool_use

\* The body the spec gives the synthetic chat: the text of the first text
\* block, or the fixed "(empty response)" when that block or its text is
\* missing.
SyntheticBody(content) ==
    LET texts == BlocksOf(content, "text")
    IN  IF texts # <<>> /\ texts[1].text # NULL THEN texts[1].text
        ELSE "(empty response)"

\* C6: for a first reply with k tool-use blocks a transport call returns
\* that block after one request iff k = 1, the synthetic chat (sentinel id,
\* body from the first text block) after one request iff k = 0, and makes
\* exactly one more request iff k > 1, whose first tool-use it returns
\* however many there are; it never makes more than two requests.
C6_OneToolUsePerCall ==
    ev.returned =>
        /\ ev.nreq <= 2
        /\ ev.first_ok =>
            LET k == ToolUseCount(ev.first)
            IN  /\ k = 1 <=> (/\ ev.nreq = 1
                              /\ ev.result.some
                              /\ k >= 1
                              /\ ev.result.tool_use = FirstToolUse(ev.first))
                /\ k = 0 <=> (/\ ev.nreq = 1
                              /\ ev.result =
                                   Some(ChatTool("synthetic_text_response",
                                                 SyntheticBody(ev.first))))
                /\ k > 1 <=> ev.nreq = 2
                /\ (k > 1 /\ ev.last_ok /\ ToolUseCount(ev.last) >= 1)
                      => ev.result = Some(FirstToolUse(ev.last))

\* C6 witness: a reply with three tool-uses was answered, on the one retry,
\* by a reply with two, and the first of these came back.
C6_Witness ==
    /\ ev.returned /\ ev.nreq = 2
    /\ ToolUseCount(ev.first) = 3
    /\ ToolUseCount(ev.last) = 2
    /\ ev.result = Some(FirstToolUse(ev.last))
    /\ FirstToolUse(ev.last) # FirstToolUse(ev.first)

(***************************************************************************)
(* SpecXfer: yo_call_claude_with_messages_internal step by step, from the  *)
(* self-pipe set-up to the return, with SIGINT delivered at any point at   *)
(* which the request's handler is installed.  turn holds the locals.       *)
(***************************************************************************)

\* yo_sigint_handler: the flag is set and one byte goes into the pipe.
yo_sigint_handler(pipe) == [cancelled |-> TRUE, pipe |-> pipe + 1]

\* yo_drain_sigint_pipe: the pipe is read empty and the flag zeroed.
yo_drain_sigint_pipe(pipe) == [cancelled |-> FALSE, pipe |-> 0]

\* The locals of the transport call.
XferLocals(is_retry, old_sa) ==
    [is_retry |-> is_retry, old_sa |-> old_sa, still_running |-> TRUE,
     cancelled |-> FALSE, had_curl_error |-> FALSE]

\* How a transfer that ran to its end can turn out.
XferCompletions ==
    { Http("ok", FALSE, c) :
        c \in { <<ToolUseBlock(CmdPlain)>>, <<TextBlock("hello")>>,
                <<ToolUseBlock(CmdPlain), ToolUseBlock(ChatReply)>> } }
        \cup { Http("curl_error", FALSE, <<>>), Http("http_status", FALSE, <<>>),
               Http("no_data", FALSE, <<>>), Http("parse_error", FALSE, <<>>) }

\* The diagnostic of each failed completion.
XferDiagnostic(kind) ==
    CASE kind = "curl_error"  -> "HTTP error"
      [] kind = "http_status" -> "Unexpected HTTP status code"
      [] kind = "no_data"     -> "No response from API"
      [] kind = "parse_error" -> "Failed to parse API response"
      [] OTHER                -> NULL

XferFrame ==
    UNCHANGED <<histVars, yo_last_was_command, yo_continuation_active,
                yo_saved_startup_hook, yo_last_executed_command, rlVars, ringVars,
                procVars>>

InitXfer ==
    /\ InitCommon
    /\ yo_scrollback = NoRing
    /\ yo_scrollback_enabled = FALSE
    /\ pc = "idle"

\* A restore that resets SIGINT to the default instead of the saved action.
RestoreDefault(old_sa) == "SIG_DFL"

\* sigaction(SIGINT, &old_sa, NULL) after the loop
RestoreSigint(old_sa) == old_sa

\* A return of the call: what it returns and the diagnostic it printed.
XferReturn(result, printed, o) ==
    /\ pc' = "returned"
    /\ ev' = [Ev("return") EXCEPT !.returned = TRUE, !.result = result,
                                  !.printed = printed, !.nreq = o.nreq]
    /\ obs' = o

\* Entry of the function up to the sigaction that installs the handler
\* (1898-1969): the pipe is made on first use, drained, curl initialised.
\* fail is the initialisation that fails, if any.
XferEnter(is_retry, fail, o) ==
    IF fail = "pipe"
    THEN /\ XferReturn(None, "Failed to initialize signal handling", o)
         /\ UNCHANGED <<yo_cancelled, sigVars, procVars, turn>>
    ELSE LET d == yo_drain_sigint_pipe(yo_sigint_pipe)
         IN  /\ yo_cancelled' = d.cancelled
             /\ yo_sigint_pipe' = d.pipe
             /\ IF fail = "curl"
                THEN /\ XferReturn(None, "Failed to initialize HTTP client", o)
                     /\ UNCHANGED <<sigint_handler, turn>>
                ELSE /\ turn' = XferLocals(is_retry, sigint_handler)
                     /\ sigint_handler' = RequestHandler
                     /\ pc' = "perform"
                     /\ ev' = Ev("request")
                     /\ obs' = [o EXCEPT !.nreq = @ + 1]

\* The initialisations that can fail: pipe() only while there is no pipe.
XferFailures ==
    {"none", "curl"} \cup (IF yo_sigint_pipe = NoPipe THEN {"pipe"} ELSE {})

\* yo_call_claude_with_messages: a caller starts a transport call.
XferCall ==
    /\ pc \in {"idle", "returned"}
    /\ \E fail \in XferFailures :
          XferEnter(FALSE, fail,
                    [obs EXCEPT !.nreq = 0, !.sigints = 0,
                                !.handler_before = sigint_handler])
    /\ XferFrame

\* The recursive call after a reply with several tool-uses (2215).
XferRetry ==
    /\ pc = "retry"
    /\ \E fail \in XferFailures : XferEnter(TRUE, fail, obs)
    /\ XferFrame

\* SIGINT while the request's handler is the disposition.
XferSigint ==
    /\ sigint_handler = RequestHandler
    /\ obs.sigints < MaxSigints
    /\ LET h == yo_sigint_handler(yo_sigint_pipe)
       IN  /\ yo_cancelled' = h.cancelled
           /\ yo_sigint_pipe' = h.pipe
    /\ obs' = [obs EXCEPT !.sigints = @ + 1]
    /\ ev' = Ev("sigint")
    /\ UNCHANGED <<sigint_handler, pc, turn>>
    /\ XferFrame

\* curl_multi_perform (1986-1994): an error, the end of the transfer, or
\* more to do.
XferPerform ==
    /\ pc = "perform"
    /\ \E mc \in {"ok", "error"}, still_running \in BOOLEAN :
          IF mc = "error"
          THEN turn' = [turn EXCEPT !.had_curl_error = TRUE] /\ pc' = "restore"
          ELSE /\ turn' = [turn EXCEPT !.still_running = still_running]
               /\ pc' = IF still_running THEN "poll" ELSE "restore"
    /\ ev' = Ev("perform")
    /\ UNCHANGED <<yo_cancelled, sigVars, procVars, obs>>
    /\ XferFrame

\* curl_multi_poll with the pipe's read end as the extra descriptor and the
\* test of its revents (1996-2016).
XferPoll ==
    /\ pc = "poll"
    /\ \E mc \in {"ok", "error"} :
          IF mc = "error"
          THEN turn' = [turn EXCEPT !.had_curl_error = TRUE] /\ pc' = "restore"
          ELSE IF yo_sigint_pipe > 0
          THEN turn' = [turn EXCEPT !.cancelled = TRUE] /\ pc' = "restore"
          ELSE UNCHANGED turn /\ pc' = "flag"
    /\ ev' = Ev("poll")
    /\ UNCHANGED <<yo_cancelled, sigVars, procVars, obs>>
    /\ XferFrame

\* The test of yo_cancelled that ends the loop body (2018-2023).
XferFlag ==
    /\ pc = "flag"
    /\ IF yo_cancelled
       THEN turn' = [turn EXCEPT !.cancelled = TRUE] /\ pc' = "restore"
       ELSE UNCHANGED turn /\ pc' = "perform"
    /\ ev' = Ev("flag")
    /\ UNCHANGED <<yo_cancelled, sigVars, procVars, obs>>
    /\ XferFrame

\* The old disposition is put back (2027).
XferRestore ==
    /\ pc = "restore"
    /\ sigint_handler' = RestoreSigint(turn.old_sa)
    /\ pc' = "finish"
    /\ ev' = Ev("restore")
    /\ UNCHANGED <<yo_cancelled, yo_sigint_pipe, turn, obs>>
    /\ XferFrame

\* The rest of the function (2029-2229): the two tests of the loop's
\* outcome, then the transfer's own result, the parse and the normalisation.
XferFinish ==
    /\ pc = "finish"
    /\ IF turn.had_curl_error THEN XferReturn(None, "HTTP error", obs)
       ELSE IF turn.cancelled THEN XferReturn(None, "Cancelled", obs)
       ELSE \E resp \in XferCompletions :
              LET step == TransportStep(resp, turn.is_retry)
              IN  IF step.reissue
                  THEN pc' = "retry" /\ ev' = Ev("reissue") /\ UNCHANGED obs
                  ELSE XferReturn(step.result, XferDiagnostic(resp.kind), obs)
    /\ UNCHANGED <<yo_cancelled, sigVars, procVars, turn>>
    /\ XferFrame

NextXfer ==
    \/ XferCall
    \/ XferRetry
    \/ XferSigint
    \/ XferPerform
    \/ XferPoll
    \/ XferFlag
    \/ XferRestore
    \/ XferFinish

SpecXfer == InitXfer /\ [][NextXfer]_vars

\* C11: when SIGINT was delivered while the request's handler was installed,
\* the transport call returns none and has printed "Cancelled" (the claim
\* as stated, for every interleaving of the signal with the loop).
C11_SigintCancelsCall ==
    (pc = "returned" /\ obs.sigints > 0) =>
        (ev.result = None /\ ev.printed = "Cancelled")

\* C12: the SIGINT disposition is the request's handler exactly from the
\* start of a request to the end of its poll loop, and the caller's own at
\* every return of the call and in between.
C12_SigintDispositionRestored ==
    /\ pc \in {"perform", "poll", "flag", "restore"} <=> sigint_handler = RequestHandler
    /\ pc \notin {"perform", "poll", "flag", "restore", "idle"}
          => sigint_handler = obs.handler_before

\* C12 witness: a call that made two requests (the multi-tool retry) and
\* took a SIGINT has returned with the caller's disposition in place.
C12_Witness ==
    /\ pc = "returned" /\ ev.nreq = 2 /\ obs.sigints > 0
    /\ sigint_handler = EditorHandler

(***************************************************************************)
(* Properties of the control loop (Spec): the sub-request loop, the        *)
(* explanation repair, what a turn stores, and the reset.                  *)
(***************************************************************************)

\* C13: a turn makes at most three with-result calls, whatever mixture of
\* scrollback and docs requests the model returns (obs.follow counts the
\* calls while each is in flight).
C13_AtMostThreeFollowUps == obs.follow <= 3

\* C13 witness: a continuation turn answered three requests and then
\* dispatched a command.
C13_Witness ==
    /\ ev.ended /\ ev.outcome = "command"
    /\ ev.exhausted
    /\ ev.kind = "hook"

\* C14: a turn whose reply to the third follow-up is again a sub-request
\* ends with "Too many scrollback requests", dispatches nothing and stores
\* nothing (the claim as stated, for both handlers and both requests).
C14_ExhaustedLoopReported ==
    (/\ ev.ended /\ ev.exhausted
     /\ ev.tool.some /\ ev.tool.tool_use.name \in {"scrollback", "docs"})
        => /\ ev.printed = "Too many scrollback requests"
           /\ ev.outcome = "error"
           /\ Len(yo_history) = obs.len_before

\* C19: after a turn that ended in an error the editor line is empty (the
\* claim as stated, for every error of either handler).
C19_ErrorLeavesLineEmpty ==
    (ev.ended /\ ev.outcome = "error") => rl_line_buffer = ""

\* C15: a turn sends at most one explanation-repair request, and sends one
\* whenever its command came without an explanation (the claim as stated,
\* for every command of either handler).
C15_OneRepairWhenNeeded ==
    ev.ended => /\ ev.repairs <= 1
                /\ ev.needed => ev.repairs = 1

\* C16: a successful turn stores exactly one exchange, the newest of
\* memory: its query is the turn's (the accepted yo line or the
\* [continuation] query), its tool the dispatched one, command or chat, and
\* executed is set for chat and clear for command.
C16_SuccessStoresOneExchange ==
    (ev.ended /\ ev.outcome \in {"command", "chat"}) =>
        LET n == Len(yo_history)
        IN  /\ n >= 1
            /\ Len(obs.sn) = n
            /\ Cardinality({i \in 1 .. n : obs.sn[i] = obs.turns}) = 1
            /\ obs.sn[n] = obs.turns
            /\ yo_history[n].query = ev.query
            /\ ev.kind = "accept" => HasPrefix(ev.query, "yo ") /\ ev.query \in TypedLines
            /\ ev.kind = "hook" => HasPrefix(ev.query, "[continuation]")
            /\ yo_history[n].response_type = ev.outcome
            /\ yo_history[n].response_type = ev.tool.tool_use.name
            /\ yo_history[n].executed = (ev.outcome = "chat")

\* C16 witness: a turn that answered three sub-requests and sent a repair
\* request has stored its one command, not executed.
C16_Witness ==
    /\ ev.ended /\ ev.outcome = "command"
    /\ ev.exhausted /\ ev.repairs = 1
    /\ Len(yo_history) = obs.len_before + 1
    /\ ~yo_history[Len(yo_history)].executed

\* The state of yo.c and of the editor, without the observation variables.
progVars ==
    <<yo_history, yo_history_limit, yo_token_budget, flagVars, sigVars, procVars, rlVars,
      ringVars, pc, turn>>

HostClearHistory ==
    /\ pc = "exec"
    /\ yo_history' = rl_yo_clear_history(yo_history)
    /\ ev' = [Ev("clear") EXCEPT !.ring_before = yo_scrollback.data_size]
    /\ obs' = [obs EXCEPT !.sn = <<>>, !.len_before = Len(yo_history)]
    /\ UNCHANGED <<yo_history_limit, yo_token_budget, flagVars, sigVars, procVars, rlVars,
                   ringVars, pc, turn>>

NextClear ==
    \/ AcceptLine
    \/ ReadlineStart
    \/ ShellOutput
    \/ EditorSigint
    \/ HttpResponse
    \/ HostClearHistory

SpecClear == Init /\ [][NextClear]_vars

\* C18: after rl_yo_clear_history memory is empty, the ring is zeroed,
\* continuation is cleared and "last was command" is clear (the claim as
\* stated).
C18_ClearHistoryClearsAll ==
    ev.op = "clear" =>
        /\ yo_history = <<>>
        /\ yo_scrollback.write_pos = 0 /\ yo_scrollback.data_size = 0
        /\ ~yo_continuation_active
        /\ ~yo_last_was_command

\* C20: every command exchange in memory has a non-empty command string and
\* a non-empty tool-use id (the claim as stated, for every tool-use the
\* model can return).
C20_CommandExchangesComplete ==
    \A i \in 1 .. Len(yo_history) :
        yo_history[i].response_type = "command" =>
            /\ yo_history[i].response \notin {NULL, ""}
            /\ yo_history[i].tool_use_id \notin {NULL, ""}

(***************************************************************************)
(* SpecMsg: the messages built from the memory.  The memory is filled by   *)
(* yo_history_add as the dispatch calls it and marked as the accept-line   *)
(* handler marks it; yo_build_messages is then applied to it.  Messages    *)
(* are cJSON trees: an item has a type, a valuestring and children, and an *)
(* object's children carry their member name.                              *)
(***************************************************************************)

\* Exchanges in the memory of SpecMsg
MaxMsgs == 3

\* cJSON items
Item(type, valuestring, child) ==
    [type |-> type, valuestring |-> valuestring, child |-> child]

cJSON_CreateString(string) == Item("String", string, <<>>)
cJSON_CreateTrue == Item("True", NULL, <<>>)
cJSON_CreateArray(items) == Item("Array", NULL, items)
cJSON_CreateObject(members) == Item("Object", NULL, members)
Member(name, item) == [name |-> name, item |-> item]

\* cJSON_GetObjectItem: the first member of that name, or no item (the code
\* compares names without case; every name of the model is lower case).
NoItem == Item("NULL", NULL, <<>>)
cJSON_GetObjectItem(object, name) ==
    LET at == { i \in 1 .. Len(object.child) : object.child[i].name = name }
    IN  IF at = {} THEN NoItem
        ELSE object.child[CHOOSE i \in at : \A j \in at : i <= j].item

\* yo_build_tool_use_block
yo_build_tool_use_block(tool_use_id, type, response, pending) ==
    LET input ==
            IF type = "command"
            THEN <<Member("command", cJSON_CreateString(response)),
                   Member("explanation", cJSON_CreateString("(from history)"))>>
                 \o (IF pending THEN <<Member("pending", cJSON_CreateTrue)>> ELSE <<>>)
            ELSE IF type = "chat"
            THEN <<Member("response", cJSON_CreateString(response))>>
            ELSE <<>>
    IN  cJSON_CreateObject(
            <<Member("type", cJSON_CreateString("tool_use")),
              Member("id", cJSON_CreateString(tool_use_id)),
              Member("name", cJSON_CreateString(type)),
              Member("input", cJSON_CreateObject(input))>>)

\* yo_build_tool_result_block
yo_build_tool_result_block(tool_use_id, result_content) ==
    cJSON_CreateObject(
        <<Member("type", cJSON_CreateString("tool_result")),
          Member("tool_use_id", cJSON_CreateString(tool_use_id)),
          Member("content", cJSON_CreateString(result_content))>>)

\* A result string that does not look at the executed flag.
ResultIgnoresExecuted(x) ==
    IF x.response_type = "command" THEN "User did not execute the command"
    ELSE "Acknowledged"

\* The result string yo_build_messages gives the exchange x.
ResultContent(x) ==
    IF x.response_type = "command"
    THEN IF x.executed THEN "User executed the command"
         ELSE "User did not execute the command"
    ELSE "Acknowledged"

\* A message with a string as its content, and one with an array of blocks.
TextMessage(role, text) ==
    cJSON_CreateObject(<<Member("role", cJSON_CreateString(role)),
                         Member("content", cJSON_CreateString(text))>>)
BlockMessage(role, block) ==
    cJSON_CreateObject(<<Member("role", cJSON_CreateString(role)),
                         Member("content", cJSON_CreateArray(<<block>>))>>)

\* The three messages yo_build_messages adds for the exchange x.
ExchangeMessages(x) ==
    << TextMessage("user", x.query),
       BlockMessage("assistant",
                    yo_build_tool_use_block(x.tool_use_id, x.response_type,
                                            x.response, x.pending)),
       BlockMessage("user",
                    yo_build_tool_result_block(x.tool_use_id, ResultContent(x))) >>

RECURSIVE HistoryMessages(_, _)
HistoryMessages(h, i) ==
    IF i > Len(h) THEN <<>> ELSE ExchangeMessages(h[i]) \o HistoryMessages(h, i + 1)

\* yo_build_messages
yo_build_messages(h, current_query) ==
    cJSON_CreateArray(HistoryMessages(h, 1) \o <<TextMessage("user", current_query)>>)

\* The exchanges the two dispatches store: a command not yet executed, with
\* or without pending and with or without a tool-use id, and a chat reply.
MsgExchanges ==
    { Exchange("yo q", "command", "ls", "t1", FALSE, FALSE),
      Exchange("[continuation] ls", "command", "make", "t2", FALSE, TRUE),
      Exchange("yo q", "command", "ls", NULL, FALSE, TRUE),
      Exchange("yo q", "command", "", "t1", FALSE, FALSE),
      Exchange("yo q", "chat", "hi", "t3", TRUE, FALSE),
      Exchange("yo q", "chat", "hello", "synthetic_text_response", TRUE, FALSE) }

MsgQueries == {"yo q", "[continuation] ls"}

MsgFrame ==
    UNCHANGED <<yo_history_limit, yo_token_budget, flagVars, sigVars, procVars, rlVars,
                ringVars, pc, turn, obs>>

InitMsg ==
    /\ InitCommon
    /\ yo_scrollback = NoRing
    /\ yo_scrollback_enabled = FALSE
    /\ pc = "msg"

\* yo_history_add as the dispatch of a turn calls it.
MsgAdd ==
    /\ pc = "msg"
    /\ Len(yo_history) < MaxMsgs
    /\ \E x \in MsgExchanges :
          yo_history' = yo_history_add(yo_history, yo_history_limit, yo_token_budget, x)
    /\ ev' = Ev("add")
    /\ MsgFrame

\* rl_yo_accept_line marking the newest exchange executed.
MsgMark ==
    /\ pc = "msg"
    /\ Len(yo_history) > 0
    /\ yo_history' = [yo_history EXCEPT ![Len(yo_history)].executed = TRUE]
    /\ ev' = Ev("mark")
    /\ MsgFrame

\* yo_build_messages for the query of a turn.
MsgBuild ==
    /\ pc = "msg"
    /\ \E q \in MsgQueries :
          ev' = [Ev("build") EXCEPT !.query = q,
                                    !.messages = yo_build_messages(yo_history, q)]
    /\ UNCHANGED yo_history
    /\ MsgFrame

NextMsg == MsgAdd \/ MsgMark \/ MsgBuild

SpecMsg == InitMsg /\ [][NextMsg]_vars

\* Reading the messages back.  StringOf is the string of a member, Block the
\* one block of a message's content array.
StringOf(object, name) == cJSON_GetObjectItem(object, name).valuestring
BlockOf(message) == cJSON_GetObjectItem(message, "content").child[1]

\* The exchange the three messages m1, m2, m3 stand for.
ParseExchange(m1, m2, m3) ==
    LET tool_use == BlockOf(m2)
        name     == StringOf(tool_use, "name")
        input    == cJSON_GetObjectItem(tool_use, "input")
        result   == StringOf(BlockOf(m3), "content")
    IN  Exchange(StringOf(m1, "content"), name,
                 StringOf(input, IF name = "command" THEN "command" ELSE "response"),
                 StringOf(tool_use, "id"),
                 result \in {"User executed the command", "Acknowledged"},
                 cJSON_GetObjectItem(input, "pending").type = "True")

\* The shape of the three messages of one exchange.
IsTriple(m1, m2, m3) ==
    /\ StringOf(m1, "role") = "user"
    /\ cJSON_GetObjectItem(m1, "content").type = "String"
    /\ StringOf(m2, "role") = "assistant"
    /\ Len(cJSON_GetObjectItem(m2, "content").child) = 1
    /\ StringOf(BlockOf(m2), "type") = "tool_use"
    /\ StringOf(m3, "role") = "user"
    /\ Len(cJSON_GetObjectItem(m3, "content").child) = 1
    /\ StringOf(BlockOf(m3), "type") = "tool_result"
    /\ StringOf(BlockOf(m3), "tool_use_id") = StringOf(BlockOf(m2), "id")
    /\ StringOf(BlockOf(m3), "content") =
          IF StringOf(BlockOf(m2), "name") # "command" THEN "Acknowledged"
          ELSE IF ParseExchange(m1, m2, m3).executed THEN "User executed the command"
          ELSE "User did not execute the command"

\* C22: the messages built from a memory are one triple per exchange, in
\* memory order, followed by the current query, and reading the triples
\* back gives the memory.
C22_MessagesRoundTrip ==
    ev.op = "build" =>
        LET m == ev.messages.child
            n == Len(yo_history)
        IN  /\ Len(m) = 3 * n + 1
            /\ \A i \in 1 .. n :
                  /\ IsTriple(m[3 * i - 2], m[3 * i - 1], m[3 * i])
                  /\ ParseExchange(m[3 * i - 2], m[3 * i - 1], m[3 * i]) = yo_history[i]
            /\ StringOf(m[3 * n + 1], "role") = "user"
            /\ StringOf(m[3 * n + 1], "content") = ev.query

\* C22 witness: messages built from a memory that holds an executed command,
\* a pending command that was not executed, and a chat reply.
C22_Witness ==
    /\ ev.op = "build"
    /\ Len(yo_history) = 3
    /\ \E i, j, k \in 1 .. 3 :
          /\ yo_history[i].response_type = "command" /\ yo_history[i].executed
          /\ yo_history[j].response_type = "command" /\ ~yo_history[j].executed
          /\ yo_history[j].pending
          /\ yo_history[k].response_type = "chat"

(***************************************************************************)
(* SpecStrip: rl_yo_get_scrollback read from a ring that holds every byte  *)
(* string of up to MaxStripLen bytes, escape sequences included.           *)
(***************************************************************************)

\* Longest terminal output in the ring of SpecStrip
MaxStripLen == 5

\* ESC, the CSI introducer, a letter, a parameter byte and the newline
StripBytes == {ESC, "[", "m", "1", LF}

StripInputs == UNION { [1 .. n -> StripBytes] : n \in 0 .. MaxStripLen }

\* The ring after the pump wrote one of the inputs into it.
InitStrip ==
    /\ InitCommon
    /\ \E s \in StripInputs :
          yo_scrollback = yo_scrollback_append(
                              NewRing(MaxStripLen, YO_DEFAULT_SCROLLBACK_LINES), s)
    /\ yo_scrollback_enabled = TRUE
    /\ pc = "strip"

\* rl_yo_get_scrollback(max_lines)
StripRead ==
    /\ pc = "strip"
    /\ \E max_lines \in {0, 1, 2} :
          /\ sb_result' = rl_yo_get_scrollback(yo_scrollback, yo_scrollback_enabled, max_lines)
          /\ ev' = EvRead(max_lines)
    /\ UNCHANGED <<yo_scrollback, obs>>
    /\ RingFrame

NextStrip == StripRead

SpecStrip == InitStrip /\ [][NextStrip]_vars

\* C23: the copy loop applied to what a read returned gives it back
\* unchanged: stripping twice equals stripping once.
C23_StripIdempotent ==
    ev.op = "read" => StripFrom(sb_result, 0, <<>>) = sb_result

\* C23 witness: a read of a colour sequence followed by a lone ESC, the one
\* byte of an escape sequence the copy loop lets through.
C23_Witness ==
    /\ ev.op = "read"
    /\ RawData(yo_scrollback) = <<ESC, "[", "1", "m", ESC>>
    /\ sb_result = <<ESC>>

\* The positions of the newlines of a byte sequence.
Newlines(c) == {i \in 1 .. Len(c) : c[i] = LF}

\* The lines of a text: its newlines, and one more for an unfinished last line.
LineCount(s) ==
    Cardinality(Newlines(s)) + (IF Len(s) > 0 /\ s[Len(s)] # LF THEN 1 ELSE 0)

\* What follows the n-th newline of c counted backward from the end, or all
\* of c when it holds fewer than n newlines.
AfterNthNewlineFromEnd(c, n) ==
    IF Cardinality(Newlines(c)) < n THEN c
    ELSE LET cut == CHOOSE i \in Newlines(c) :
                        Cardinality({j \in Newlines(c) : j >= i}) = n
         IN  SubSeq(c, cut + 1, Len(c))

\* C28: a read with max_lines >= 1 returns the stripped suffix of the ring
\* content that follows the max_lines-th newline counted backward from the
\* end, or the stripped whole content when it holds fewer newlines, and the
\* result has at most max_lines lines.
C28_ReadReturnsLastLines ==
    (ev.op = "read" /\ ev.max_lines >= 1) =>
        /\ sb_result =
              StripFrom(AfterNthNewlineFromEnd(RawData(yo_scrollback), ev.max_lines),
                        0, <<>>)
        /\ LineCount(sb_result) <= ev.max_lines

\* C28 witness: a read of two lines from a ring that holds three, with a
\* colour sequence in the part returned.
C28_Witness ==
    /\ ev.op = "read" /\ ev.max_lines = 2
    /\ RawData(yo_scrollback) = <<LF, "1", LF, ESC, "m">>
    /\ sb_result = <<"1", LF>>

(***************************************************************************)
(* SpecLines: the lines member of a scrollback request, from the reply to  *)
(* the read: yo_parse_response casts the number to int and prints it,      *)
(* yo_handle_requests reads it back with atoi and clamps it.               *)
(***************************************************************************)

\* The numbers the model may give as lines: m * 10^e for these m and e
LinesMantissas == {-1001, -1, 0, 1, 2, 3, 49, 50, 51, 999, 1000, 1001}
LinesExponents == {-1, 0, 6, 9}

\* Scrollback requests: with a number as lines, and without a lines number
\* (the member is missing or is no number).
LinesTools ==
    { ScrollbackTool("t4", TRUE, Double(m, e)) :
          m \in LinesMantissas, e \in LinesExponents }
    \cup { ScrollbackTool("t4", FALSE, NoLines) }

InitLines ==
    /\ InitCommon
    /\ yo_scrollback = yo_scrollback_append(NewRing(4, YO_DEFAULT_SCROLLBACK_LINES),
                                            <<"a", LF, "b", LF>>)
    /\ yo_scrollback_enabled = TRUE
    /\ pc = "lines"

LinesFrame ==
    UNCHANGED <<histVars, flagVars, sigVars, procVars, rlVars, yo_scrollback,
                yo_scrollback_enabled, obs>>

\* The reply is a scrollback request; yo_parse_response reads it.
LinesReply ==
    /\ pc = "lines"
    /\ \E tool \in LinesTools :
          \E n \in IntCastOutcomes(tool.lines) :
              /\ turn' = [NoTurn EXCEPT !.tool_use = Some(tool),
                                        !.parsed = yo_parse_response_cast(Some(tool), n)]
              /\ ev' = [Ev("reply") EXCEPT !.tool = Some(tool)]
    /\ pc' = "fetch"
    /\ UNCHANGED sb_result
    /\ LinesFrame

\* yo_handle_requests fetches the scrollback the request asked for.
LinesFetch ==
    /\ pc = "fetch"
    /\ LET lines_requested == LinesRequested(turn.parsed.content)
       IN  /\ sb_result' = rl_yo_get_scrollback(yo_scrollback, yo_scrollback_enabled,
                                                lines_requested)
           /\ ev' = [EvRead(lines_requested) EXCEPT !.tool = turn.tool_use]
    /\ turn' = NoTurn
    /\ pc' = "lines"
    /\ LinesFrame

NextLines == LinesReply \/ LinesFetch

SpecLines == InitLines /\ [][NextLines]_vars

\* The value m * 10^e compared with the claim's limits.
NotPositive(d) == d.m <= 0
Above1000(d) ==
    IF d.e < 0 THEN d.m > 1000 * Pow10(0 - d.e)
    ELSE d.m > 0 /\ (d.e > 3 \/ d.m * Pow10(d.e) > 1000)
WholeIn1To1000(d) ==
    IF d.e < 0
    THEN d.m % Pow10(0 - d.e) = 0 /\ d.m \div Pow10(0 - d.e) \in 1 .. 1000
    ELSE d.m > 0 /\ d.e <= 3 /\ d.m * Pow10(d.e) <= 1000
WholeValue(d) ==
    IF d.e < 0 THEN d.m \div Pow10(0 - d.e) ELSE d.m * Pow10(d.e)

\* C24: the number of lines fetched for a scrollback request is within
\* 1..1000: 50 for a value that is 0 or negative, missing or no number, 1000
\* for a value above 1000, and the value itself when it is in 1..1000 (the
\* claim as stated, for every number the reply can hold).
C24_LinesClamped ==
    (ev.op = "read" /\ ev.tool.some) =>
        LET t == ev.tool.tool_use
        IN  /\ ev.max_lines \in 1 .. 1000
            /\ ~t.has_lines => ev.max_lines = 50
            /\ (t.has_lines /\ NotPositive(t.lines)) => ev.max_lines = 50
            /\ (t.has_lines /\ Above1000(t.lines)) => ev.max_lines = 1000
            /\ (t.has_lines /\ WholeIn1To1000(t.lines)) => ev.max_lines = WholeValue(t.lines)

(***************************************************************************)
(* SpecKey: the accept-line handler with ~/.yoshkey in every mode, for the *)
(* first turns of a session: a turn whose key is accepted runs to its      *)
(* dispatch, so that later turns find exchanges in memory.                 *)
(***************************************************************************)

\* Yo turns in one run of SpecKey
MaxKeyTurns == 2

\* Regular files with these owner, group and other bits, a missing file and
\* an empty one.
KeyModes ==
    { KeyFile(TRUE, S_IFREG + Mode(o, g, t), "sk-1") :
          o \in {0, 2, 4, 6, 7}, g \in {0, 4, 6}, t \in {0, 4} }
    \cup { NoKeyFile, KeyFile(TRUE, S_IFREG + Mode(6, 0, 0), "") }

KeyAcceptLine == AcceptLineWith(KeyModes, MaxKeyTurns)

NextKey == KeyAcceptLine \/ HttpResponse

SpecKey == Init /\ [][NextKey]_vars

\* C25: a query line gets its request only when the permission bits of the
\* key file are exactly 0600; with any other bits no request is made, the
\* mode diagnostic is printed, the editor line is cleared and the memory is
\* what it was.
C25_KeyModeExactly0600 ==
    (ev.op = "accept" /\ HasPrefix(ev.line, "yo ") /\ ev.line # "yo reset") =>
        LET perm == ev.file.st_mode % 512
        IN  /\ pc = "http" => (ev.file.exists /\ perm = Mode(6, 0, 0))
            /\ (ev.file.exists /\ perm # Mode(6, 0, 0)) =>
                  /\ pc = "edit" /\ turn = NoTurn /\ obs.nreq = 0
                  /\ ev.printed = "~/.yoshkey must have mode 0600 (current: "
                                      \o Octal4(perm) \o ")"
                  /\ rl_line_buffer = ""
                  /\ yo_history = ev.before

\* C25 witness: a query refused for a key file of mode 0640 while the memory
\* holds an exchange.
C25_Witness ==
    /\ ev.op = "accept" /\ ev.line = "yo q"
    /\ ev.file.exists /\ ev.file.st_mode % 512 = Mode(6, 4, 0)
    /\ ev.printed = "~/.yoshkey must have mode 0600 (current: 0640)"
    /\ Len(yo_history) = 1
    /\ pc = "edit"

(***************************************************************************)
(* SpecLock: the pump inside yo_scrollback_append and the shell inside     *)
(* rl_yo_get_scrollback or yo_scrollback_clear, one shared-memory access   *)
(* per step, interleaved in every order the ring mutex allows.             *)
(***************************************************************************)

\* Capacity of the ring, calls of yo_scrollback_append and calls of the
\* shell's ring functions in one run of SpecLock
LockCap == 2
MaxLockAppends == 2
MaxLockCalls == 2

LockChunks == {<<"a">>, <<LF, "b">>, <<"a", LF, "b">>}

\* A mutex that every caller may take, held or not.
LockIgnoresHolder(holder) == TRUE

\* pthread_mutex_lock returns only when no process holds the mutex.
MutexFree(holder) == holder = Unlocked

\* The locals of yo_scrollback_append
PumpAt(at, data, i, capacity, write_pos) ==
    [at |-> at, data |-> data, i |-> i, capacity |-> capacity, write_pos |-> write_pos]

\* The locals of rl_yo_get_scrollback (op "read") and the position inside
\* yo_scrollback_clear (op "clear").  raw is raw_data[0 .. raw_size-1]; src,
\* dst and n are the arguments of the memcpy in progress and k its progress.
ShellAt(at, op, max_lines, raw, src, dst, n, k, part) ==
    [at |-> at, op |-> op, max_lines |-> max_lines, raw |-> raw, src |-> src,
     dst |-> dst, n |-> n, k |-> k, part |-> part]

\* A byte of malloc'd memory that nothing has written yet
Uninit == "?"

\* data[i] of the ring's mapping
RingByte(ring, i) == IF i \in DOMAIN ring.data THEN ring.data[i] ELSE NUL

LockFrame ==
    UNCHANGED <<histVars, flagVars, sigVars, rlVars, yo_scrollback_enabled, pc, turn>>

InitLock ==
    /\ InitCommon
    /\ yo_scrollback = NewRing(LockCap, 200)
    /\ yo_scrollback_enabled = TRUE
    /\ pc = "lock"

\* The pump calls yo_scrollback_append(data, len) with len > 0 (370-371).
AppendCall ==
    /\ pump.at = "outside"
    /\ obs.adds < MaxLockAppends
    /\ \E chunk \in LockChunks : pump' = PumpAt("lock", chunk, 0, 0, 0)
    /\ obs' = [obs EXCEPT !.adds = @ + 1]
    /\ ev' = Ev("append_call")
    /\ UNCHANGED <<yo_scrollback, sb_result, ring_lock, shell>>
    /\ LockFrame

\* pthread_mutex_lock (374)
AppendLock ==
    /\ pump.at = "lock"
    /\ MutexFree(ring_lock)
    /\ ring_lock' = "pump"
    /\ pump' = [pump EXCEPT !.at = "load"]
    /\ ev' = Ev("append_lock")
    /\ UNCHANGED <<yo_scrollback, sb_result, shell, obs>>
    /\ LockFrame

\* capacity and write_pos are read into locals (377-378).
AppendLoad ==
    /\ pump.at = "load"
    /\ pump' = [pump EXCEPT !.at = "write", !.capacity = yo_scrollback.capacity,
                            !.write_pos = yo_scrollback.write_pos]
    /\ ev' = Ev("append_load")
    /\ UNCHANGED <<yo_scrollback, sb_result, ring_lock, shell, obs>>
    /\ LockFrame

\* One round of the byte loop (380-384).
AppendByte ==
    /\ pump.at = "write"
    /\ pump.i < Len(pump.data)
    /\ yo_scrollback' = [yo_scrollback EXCEPT !.data[pump.write_pos] = pump.data[pump.i + 1]]
    /\ pump' = [pump EXCEPT !.i = @ + 1,
                            !.write_pos = (pump.write_pos + 1) % pump.capacity]
    /\ ev' = Ev("append_byte")
    /\ UNCHANGED <<sb_result, ring_lock, shell, obs>>
    /\ LockFrame

\* yo_scrollback->write_pos = write_pos (386)
AppendPos ==
    /\ pump.at = "write"
    /\ pump.i = Len(pump.data)
    /\ yo_scrollback' = [yo_scrollback EXCEPT !.write_pos = pump.write_pos]
    /\ pump' = [pump EXCEPT !.at = "size"]
    /\ ev' = Ev("append_pos")
    /\ UNCHANGED <<sb_result, ring_lock, shell, obs>>
    /\ LockFrame

\* yo_scrollback->data_size += len (387)
AppendSize ==
    /\ pump.at = "size"
    /\ yo_scrollback' = [yo_scrollback EXCEPT !.data_size = @ + Len(pump.data)]
    /\ pump' = [pump EXCEPT !.at = "clamp"]
    /\ ev' = Ev("append_size")
    /\ UNCHANGED <<sb_result, ring_lock, shell, obs>>
    /\ LockFrame

\* An append that leaves data_size as the addition made it.
AppendNoClamp ==
    /\ pump.at = "clamp"
    /\ pump' = [pump EXCEPT !.at = "unlock"]
    /\ ev' = Ev("append_clamp")
    /\ UNCHANGED <<yo_scrollback, sb_result, ring_lock, shell, obs>>
    /\ LockFrame

\* The clamp of data_size to the capacity (388-389).
AppendClamp ==
    /\ pump.at = "clamp"
    /\ yo_scrollback' =
          IF yo_scrollback.data_size > pump.capacity
          THEN [yo_scrollback EXCEPT !.data_size = pump.capacity]
          ELSE yo_scrollback
    /\ pump' = [pump EXCEPT !.at = "unlock"]
    /\ ev' = Ev("append_clamp")
    /\ UNCHANGED <<sb_result, ring_lock, shell, obs>>
    /\ LockFrame

\* pthread_mutex_unlock and return (391-392)
AppendUnlock ==
    /\ pump.at = "unlock"
    /\ ring_lock' = Unlocked
    /\ pump' = Outside
    /\ ev' = Ev("append")
    /\ UNCHANGED <<yo_scrollback, sb_result, shell, obs>>
    /\ LockFrame

\* The shell calls rl_yo_get_scrollback; max_lines <= 0 is replaced by the
\* ring's max_lines, which nothing writes after yo_pty_init (796-800).
ReadCall ==
    /\ shell.at = "outside"
    /\ obs.turns < MaxLockCalls
    /\ \E max_lines_arg \in {0, 1} :
          shell' = ShellAt("lock", "read",
                           IF max_lines_arg <= 0 THEN yo_scrollback.max_lines
                           ELSE max_lines_arg,
                           <<>>, 0, 0, 0, 0, 0)
    /\ obs' = [obs EXCEPT !.turns = @ + 1]
    /\ ev' = Ev("read_call")
    /\ UNCHANGED <<yo_scrollback, sb_result, ring_lock, pump>>
    /\ LockFrame

\* The shell calls yo_scrollback_clear (398-399).
ClearCall ==
    /\ shell.at = "outside"
    /\ obs.turns < MaxLockCalls
    /\ shell' = ShellAt("lock", "clear", 0, <<>>, 0, 0, 0, 0, 0)
    /\ obs' = [obs EXCEPT !.turns = @ + 1]
    /\ ev' = Ev("clear_call")
    /\ UNCHANGED <<yo_scrollback, sb_result, ring_lock, pump>>
    /\ LockFrame

\* pthread_mutex_lock of the read (802) and of the clear (401)
ShellLock ==
    /\ shell.at = "lock"
    /\ MutexFree(ring_lock)
    /\ ring_lock' = "shell"
    /\ shell' = [shell EXCEPT !.at = IF shell.op = "read" THEN "test" ELSE "zero_pos"]
    /\ obs' = [obs EXCEPT !.locked_ring = yo_scrollback]
    /\ ev' = Ev("shell_lock")
    /\ UNCHANGED <<yo_scrollback, sb_result, pump>>
    /\ LockFrame

\* data_size == 0: unlock and return "" (804-808); otherwise raw_size is
\* read and raw_data allocated (811-812).
ReadTest ==
    /\ shell.at = "test"
    /\ IF yo_scrollback.data_size = 0
       THEN /\ ring_lock' = Unlocked
            /\ shell' = Outside
            /\ sb_result' = <<>>
            /\ ev' = EvRead(shell.max_lines)
       ELSE /\ shell' = [shell EXCEPT !.at = "branch",
                            !.raw = [j \in 1 .. yo_scrollback.data_size |-> Uninit]]
            /\ ev' = Ev("read_test")
            /\ UNCHANGED <<ring_lock, sb_result>>
    /\ UNCHANGED <<yo_scrollback, pump, obs>>
    /\ LockFrame

\* The test for a wrapped ring and the arguments of the first memcpy
\* (819-828).
ReadBranch ==
    /\ shell.at = "branch"
    /\ shell' =
          IF yo_scrollback.data_size < yo_scrollback.capacity
          THEN [shell EXCEPT !.at = "copy", !.part = 0, !.src = 0, !.dst = 0,
                             !.n = Len(shell.raw), !.k = 0]
          ELSE [shell EXCEPT !.at = "copy", !.part = 1,
                             !.src = yo_scrollback.write_pos, !.dst = 0,
                             !.n = yo_scrollback.capacity - yo_scrollback.write_pos,
                             !.k = 0]
    /\ ev' = Ev("read_branch")
    /\ UNCHANGED <<yo_scrollback, sb_result, ring_lock, pump, obs>>
    /\ LockFrame

\* One byte of the memcpy in progress.
ReadByte ==
    /\ shell.at = "copy"
    /\ shell.k < shell.n
    /\ shell' = [shell EXCEPT !.k = @ + 1,
                    !.raw = [j \in DOMAIN shell.raw |->
                                IF j = shell.dst + shell.k + 1
                                THEN RingByte(yo_scrollback, shell.src + shell.k)
                                ELSE shell.raw[j]]]
    /\ ev' = Ev("read_byte")
    /\ UNCHANGED <<yo_scrollback, sb_result, ring_lock, pump, obs>>
    /\ LockFrame

\* The arguments of the second memcpy of a wrapped ring (829).
ReadSecond ==
    /\ shell.at = "copy"
    /\ shell.k = shell.n
    /\ shell.part = 1
    /\ shell' = [shell EXCEPT !.part = 2, !.src = 0, !.dst = shell.n,
                              !.n = yo_scrollback.write_pos, !.k = 0]
    /\ ev' = Ev("read_second")
    /\ UNCHANGED <<yo_scrollback, sb_result, ring_lock, pump, obs>>
    /\ LockFrame

\* The unlock after the copy, and the rest of the function on the private
\* copy (831-886).
ReadUnlock ==
    /\ shell.at = "copy"
    /\ shell.k = shell.n
    /\ shell.part # 1
    /\ ring_lock' = Unlocked
    /\ sb_result' = StrippedTail(shell.raw, shell.max_lines)
    /\ shell' = Outside
    /\ ev' = EvRead(shell.max_lines)
    /\ UNCHANGED <<yo_scrollback, pump, obs>>
    /\ LockFrame

\* yo_scrollback->write_pos = 0 (402)
ClearPos ==
    /\ shell.at = "zero_pos"
    /\ yo_scrollback' = [yo_scrollback EXCEPT !.write_pos = 0]
    /\ shell' = [shell EXCEPT !.at = "zero_size"]
    /\ ev' = Ev("clear_pos")
    /\ UNCHANGED <<sb_result, ring_lock, pump, obs>>
    /\ LockFrame

\* yo_scrollback->data_size = 0 (403)
ClearSize ==
    /\ shell.at = "zero_size"
    /\ yo_scrollback' = [yo_scrollback EXCEPT !.data_size = 0]
    /\ shell' = [shell EXCEPT !.at = "unlock"]
    /\ ev' = Ev("clear_size")
    /\ UNCHANGED <<sb_result, ring_lock, pump, obs>>
    /\ LockFrame

\* pthread_mutex_unlock and return (404-405)
ClearUnlock ==
    /\ shell.at = "unlock"
    /\ ring_lock' = Unlocked
    /\ shell' = Outside
    /\ ev' = Ev("clear")
    /\ UNCHANGED <<yo_scrollback, sb_result, pump, obs>>
    /\ LockFrame

NextLock ==
    \/ AppendCall \/ AppendLock \/ AppendLoad \/ AppendByte \/ AppendPos
    \/ AppendSize \/ AppendClamp \/ AppendUnlock
    \/ ReadCall \/ ClearCall \/ ShellLock \/ ReadTest \/ ReadBranch \/ ReadByte
    \/ ReadSecond \/ ReadUnlock \/ ClearPos \/ ClearSize \/ ClearUnlock

SpecLock == InitLock /\ [][NextLock]_vars

\* A process is between its lock and its unlock of the ring mutex: every
\* position at which it reads or writes write_pos, data_size or the data.
InRing(p) == p.at \notin {"outside", "lock"}

\* C26: a process inside one of the ring functions' accesses holds the ring
\* mutex, the pump and the shell are never both inside; the ring does not
\* change while a read is inside, and the string a read returns is the one
\* an undisturbed read of the ring as it was at the read's lock returns.
C26_RingAccessUnderMutex ==
    /\ InRing(pump) => ring_lock = "pump"
    /\ InRing(shell) => ring_lock = "shell"
    /\ ~(InRing(pump) /\ InRing(shell))
    /\ (InRing(shell) /\ shell.op = "read") => yo_scrollback = obs.locked_ring
    /\ ev.op = "read" =>
          sb_result = rl_yo_get_scrollback(obs.locked_ring, TRUE, ev.max_lines)

\* C26 witness: a read of a wrapped ring returned its last line while the
\* pump, called during the read, still waits for the mutex.
C26_Witness ==
    /\ ev.op = "read"
    /\ pump.at = "lock"
    /\ obs.locked_ring.data_size = LockCap
    /\ obs.locked_ring.write_pos = 1
    /\ sb_result = <<"b">>

(***************************************************************************)
(* SpecPrefix: lines that look like queries and are none, accepted with    *)
(* and without exchanges in memory.                                        *)
(***************************************************************************)

MaxPrefixTurns == 1

PrefixLines ==
    {"", "yo", "yoyo", "yo q", "yo ", "yo reset", "yo reset ", "yoq", "Yo q",
     " yo q", "y o q", "ls"}

PrefixAcceptLine == AcceptLineOf(PrefixLines, KeyFiles, MaxPrefixTurns)

NextPrefix == PrefixAcceptLine \/ HttpResponse

SpecPrefix == Init /\ [][NextPrefix]_vars

\* The line begins with the bytes 'y', 'o', ' '.
BeginsYoSpace(line) ==
    /\ Len(line) >= 3
    /\ SubSeq(line, 1, 1) = "y" /\ SubSeq(line, 2, 2) = "o" /\ SubSeq(line, 3, 3) = " "

MaxPtyTurns == 1

\* Values of YO_SCROLLBACK_ENABLED in the environment
PtyEnv == {NULL, "", "0", "1", "00"}

\* How far the set-up of the proxy gets: all the way, or up to openpty
PtySetups == {"ok", "openpty"}

\* What yo_pty_init leaves behind in the process that returns from it.
PtyState(ret, forked, enabled, ring) ==
    [ret |-> ret, forked |-> forked, enabled |-> enabled, ring |-> ring]

\* A yo_pty_init that looks at the environment only.
PtyInitIgnoresTty(env, stdin_tty, stdout_tty, setup) ==
    IF env # NULL /\ CharAt(env, 0) = "0" THEN PtyState(0, FALSE, FALSE, NoRing)
    ELSE IF setup = "openpty" THEN PtyState(-1, FALSE, FALSE, NoRing)
    ELSE PtyState(0, TRUE, TRUE, NewRing(MaxRingCap, YO_DEFAULT_SCROLLBACK_LINES))

\* yo_pty_init, as the shell sees it
yo_pty_init(env, stdin_tty, stdout_tty, setup) ==
    IF env # NULL /\ CharAt(env, 0) = "0" THEN PtyState(0, FALSE, FALSE, NoRing)
    ELSE IF ~stdin_tty \/ ~stdout_tty THEN PtyState(0, FALSE, FALSE, NoRing)
    ELSE IF setup = "openpty" THEN PtyState(-1, FALSE, FALSE, NoRing)
    ELSE PtyState(0, TRUE, TRUE, NewRing(MaxRingCap, YO_DEFAULT_SCROLLBACK_LINES))

PtyFrame == UNCHANGED <<histVars, flagVars, sigVars, procVars, rlVars, turn>>

\* Before rl_yo_enable: no ring, and the flag as its initialiser leaves it (151).
InitPty ==
    /\ InitCommon
    /\ yo_scrollback = NoRing
    /\ yo_scrollback_enabled = TRUE
    /\ pc = "enable"

\* rl_yo_enable
PtyEnable ==
    /\ pc = "enable"
    /\ \E env \in PtyEnv, stdin_tty \in BOOLEAN, stdout_tty \in BOOLEAN,
          setup \in PtySetups :
          LET r == yo_pty_init(env, stdin_tty, stdout_tty, setup)
          IN  /\ yo_scrollback' = r.ring
              /\ yo_scrollback_enabled' = r.enabled
              /\ obs' = [obs EXCEPT !.pty = [called |-> TRUE, env |-> env,
                                             stdin_tty |-> stdin_tty,
                                             stdout_tty |-> stdout_tty,
                                             forked |-> r.forked]]
    /\ pc' = "edit"
    /\ ev' = Ev("enable")
    /\ UNCHANGED sb_result
    /\ PtyFrame

\* The pump copies terminal output into the ring, if there is a pump.
PtyOutput ==
    /\ pc = "edit"
    /\ obs.pty.forked
    /\ yo_scrollback.data_size = 0
    /\ yo_scrollback' = yo_scrollback_append(yo_scrollback, <<"a", LF>>)
    /\ ev' = Ev("output")
    /\ UNCHANGED <<yo_scrollback_enabled, sb_result, pc, obs>>
    /\ PtyFrame

\* The host calls rl_yo_get_scrollback.
PtyRead ==
    /\ pc = "edit"
    /\ \E max_lines \in {-1, 0, 1, 1000} :
          /\ sb_result' = rl_yo_get_scrollback(yo_scrollback, yo_scrollback_enabled, max_lines)
          /\ ev' = EvRead(max_lines)
    /\ UNCHANGED <<yo_scrollback, yo_scrollback_enabled, pc, obs>>
    /\ PtyFrame

PtyAcceptLine ==
    AcceptLineOf({"yo q"}, {KeyFile(TRUE, S_IFREG + Mode(6, 0, 0), "sk-1")}, MaxPtyTurns)

PtyHttpResponse == HttpResponseWith(TRUE)

NextPty == PtyEnable \/ PtyOutput \/ PtyRead \/ PtyAcceptLine \/ PtyHttpResponse

SpecPty == InitPty /\ [][NextPty]_vars

\* rl_yo_enable ran where scrollback is disabled: YO_SCROLLBACK_ENABLED is
\* "0", or stdin or stdout is no terminal.
ScrollbackDisabled ==
    /\ obs.pty.called
    /\ obs.pty.env = "0" \/ ~obs.pty.stdin_tty \/ ~obs.pty.stdout_tty

\* C29: where scrollback is disabled, enable did not fork, every read
\* returns the empty string, a request of the model for scrollback is
\* answered by the follow-up request, and a command or chat that answers
\* the follow-up is dispatched and stored as the newest exchange.
C29_DisabledScrollbackDegrades ==
    ScrollbackDisabled =>
        /\ ~obs.pty.forked
        /\ ev.op = "read" => sb_result = <<>>
        /\ (ev.op = "http" /\ ev.last_ok /\ ev.stage = "initial"
            /\ ev.last = <<ToolUseBlock(ScrollbackTool("t4", TRUE, Double(2, 0)))>>)
              => /\ pc = "http" /\ turn.stage = "scrollback"
                 /\ sb_result = <<>>
                 /\ turn.scrollback_data = "(No terminal output available)"
        /\ (ev.op = "http" /\ ev.last_ok /\ ev.stage = "scrollback"
            /\ ev.last \in {<<ToolUseBlock(CmdPlain)>>, <<ToolUseBlock(ChatReply)>>})
              => /\ ev.ended
                 /\ ev.outcome = ev.last[1].tool_use.name
                 /\ pc = "edit"
                 /\ Len(yo_history) >= 1
                 /\ yo_history[Len(yo_history)].query = ev.query
                 /\ yo_history[Len(yo_history)].response_type = ev.outcome

\* C29 witness: on a shell whose stdout is no terminal, a turn that asked
\* for scrollback ended with the dispatch of a command.
C29_Witness ==
    /\ ScrollbackDisabled
    /\ obs.pty.stdin_tty /\ ~obs.pty.stdout_tty /\ obs.pty.env = NULL
    /\ ev.op = "http" /\ ev.stage = "scrollback"
    /\ ev.ended /\ ev.outcome = "command"
    /\ sb_result = <<>>

(***************************************************************************)
(* SpecPump: yo_pump_loop, one system call per step, with every outcome    *)
(* poll, read, write and waitpid can have, while the child runs, exits or  *)
(* is killed.                                                              *)
(***************************************************************************)

\* Reads of the pump that return data in one run of SpecPump
MaxPumpReads == 2

\* Exit codes and fatal signals of the child
ChildCodes == {0, 3, 200}
ChildSignals == {9, 15}

SIGTERM == 15

\* The wait status of a child that called exit(code), and of one that a
\* signal terminated, and the macros of <sys/wait.h> that take it apart.
ExitedStatus(code) == (code % 256) * 256
SignaledStatus(sig) == sig
WIFEXITED(status) == status % 128 = 0
WEXITSTATUS(status) == (status \div 256) % 256
WIFSIGNALED(status) == status % 128 \notin {0, 127}
WTERMSIG(status) == status % 128

\* An exit status that leaves error_exit out.
ExitIgnoresError(error_exit, status) ==
    IF WIFEXITED(status) THEN WEXITSTATUS(status)
    ELSE IF WIFSIGNALED(status) THEN 128 + WTERMSIG(status)
    ELSE 1

\* The argument of _exit at the end of yo_pump_loop (603-610)
PumpExitStatus(error_exit, status) ==
    IF error_exit THEN 1
    ELSE IF WIFEXITED(status) THEN WEXITSTATUS(status)
    ELSE IF WIFSIGNALED(status) THEN 128 + WTERMSIG(status)
    ELSE 1

\* The child: running, terminated and not yet waited for, or waited for.
ChildAt(at, status) == [at |-> at, status |-> status]

\* The locals of yo_pump_loop: status and error_exit, the revents of the two
\* descriptors after poll, whether SIGTERM went to the child, and the
\* argument of _exit.
PumpLoopAt(at, status, error_exit, in_ready, out_ready, out_hup, killed, exit) ==
    [at |-> at, status |-> status, error_exit |-> error_exit, in_ready |-> in_ready,
     out_ready |-> out_ready, out_hup |-> out_hup, killed |-> killed, exit |-> exit]

PumpFrame ==
    UNCHANGED <<histVars, flagVars, sigVars, rlVars, ring_lock, yo_scrollback_enabled,
                sb_result, pc, turn>>

\* The pump enters yo_pump_loop: status = 0, error_exit = 0 (462-463).
InitPump ==
    /\ InitState
    /\ yo_scrollback = NewRing(LockCap, YO_DEFAULT_SCROLLBACK_LINES)
    /\ yo_scrollback_enabled = TRUE
    /\ pc = "pump"
    /\ pump = PumpLoopAt("top", 0, FALSE, FALSE, FALSE, FALSE, FALSE, NULL)
    /\ shell = ChildAt("running", 0)

\* The child calls exit.
ChildExits ==
    /\ shell.at = "running"
    /\ \E code \in ChildCodes : shell' = ChildAt("zombie", ExitedStatus(code))
    /\ ev' = Ev("child_exit")
    /\ UNCHANGED <<pump, yo_scrollback, obs>>
    /\ PumpFrame

\* A signal terminates the child.
ChildKilled ==
    /\ shell.at = "running"
    /\ \E sig \in ChildSignals : shell' = ChildAt("zombie", SignaledStatus(sig))
    /\ ev' = Ev("child_killed")
    /\ UNCHANGED <<pump, yo_scrollback, obs>>
    /\ PumpFrame

\* waitpid(yo_child_pid, &status, WNOHANG) at the top of the loop
\* (496-504): 0 while the child runs, its pid once it has terminated, EINTR, or
\* a failure when there is no child to wait for.
PumpReap ==
    /\ pump.at = "top"
    /\ \/ /\ pump' = pump
          /\ ev' = Ev("eintr")
          /\ UNCHANGED <<shell, obs>>
       \/ /\ shell.at = "running"
          /\ pump' = [pump EXCEPT !.at = "poll"]
          /\ ev' = Ev("waitpid")
          /\ UNCHANGED <<shell, obs>>
       \/ /\ shell.at = "zombie"
          /\ pump' = [pump EXCEPT !.at = "drain", !.status = shell.status]
          /\ shell' = [shell EXCEPT !.at = "reaped"]
          /\ ev' = Ev("waitpid")
          /\ UNCHANGED obs
       \/ /\ shell.at = "reaped"
          /\ pump' = [pump EXCEPT !.at = "error"]
          /\ obs' = [obs EXCEPT !.fatal = TRUE]
          /\ ev' = Ev("waitpid")
          /\ UNCHANGED shell
    /\ UNCHANGED yo_scrollback
    /\ PumpFrame

\* One round of the drain after the child was reaped (505-524).
PumpDrain ==
    /\ pump.at = "drain"
    /\ \/ /\ obs.adds < MaxPumpReads
          /\ \E written \in BOOLEAN :
                IF written
                THEN /\ yo_scrollback' = yo_scrollback_append(yo_scrollback, <<"a">>)
                     /\ pump' = pump
                ELSE /\ pump' = [pump EXCEPT !.at = "cleanup"]
                     /\ UNCHANGED yo_scrollback
          /\ obs' = [obs EXCEPT !.adds = @ + 1]
          /\ ev' = Ev("drain")
       \/ /\ \E n \in {"eof", "eintr", "error"} :
                pump' = IF n = "eintr" THEN pump ELSE [pump EXCEPT !.at = "cleanup"]
          /\ ev' = Ev("drain_end")
          /\ UNCHANGED <<yo_scrollback, obs>>
    /\ UNCHANGED shell
    /\ PumpFrame

\* poll(fds, 2, 100) (527-537)
PumpPoll ==
    /\ pump.at = "poll"
    /\ \/ /\ \E ret \in {"eintr", "timeout"} : pump' = [pump EXCEPT !.at = "top"]
          /\ UNCHANGED obs
       \/ /\ pump' = [pump EXCEPT !.at = "error"]
          /\ obs' = [obs EXCEPT !.fatal = TRUE]
       \/ /\ \E i \in BOOLEAN, o \in BOOLEAN, h \in BOOLEAN :
                /\ i \/ o \/ h
                /\ pump' = [pump EXCEPT !.at = "stdin", !.in_ready = i,
                                        !.out_ready = o, !.out_hup = h]
          /\ UNCHANGED obs
    /\ ev' = Ev("poll")
    /\ UNCHANGED <<shell, yo_scrollback>>
    /\ PumpFrame

\* Input from the real stdin goes to the PTY master (539-557).
PumpStdin ==
    /\ pump.at = "stdin"
    /\ IF ~pump.in_ready
       THEN pump' = [pump EXCEPT !.at = "output"] /\ UNCHANGED obs
       ELSE \/ /\ obs.adds < MaxPumpReads
               /\ \E written \in BOOLEAN :
                     /\ pump' = [pump EXCEPT !.at = IF written THEN "output" ELSE "error"]
                     /\ obs' = [obs EXCEPT !.adds = @ + 1, !.fatal = @ \/ ~written]
            \/ /\ pump' = [pump EXCEPT !.at = "wait_child"]
               /\ UNCHANGED obs
            \/ /\ pump' = [pump EXCEPT !.at = "output"]
               /\ UNCHANGED obs
            \/ /\ pump' = [pump EXCEPT !.at = "error"]
               /\ obs' = [obs EXCEPT !.fatal = TRUE]
    /\ ev' = Ev("stdin")
    /\ UNCHANGED <<shell, yo_scrollback>>
    /\ PumpFrame

\* Output of the PTY master goes to the real stdout and into the ring
\* (559-577).
PumpOutput ==
    /\ pump.at = "output"
    /\ IF ~pump.out_ready
       THEN pump' = [pump EXCEPT !.at = "hup"] /\ UNCHANGED <<obs, yo_scrollback>>
       ELSE \/ /\ obs.adds < MaxPumpReads
               /\ \E written \in BOOLEAN :
                     /\ pump' = [pump EXCEPT !.at = IF written THEN "hup" ELSE "error"]
                     /\ yo_scrollback' =
                           IF written THEN yo_scrollback_append(yo_scrollback, <<"a">>)
                           ELSE yo_scrollback
                     /\ obs' = [obs EXCEPT !.adds = @ + 1, !.fatal = @ \/ ~written]
            \/ /\ pump' = [pump EXCEPT !.at = "wait_child"]
               /\ UNCHANGED <<obs, yo_scrollback>>
            \/ /\ pump' = [pump EXCEPT !.at = "hup"]
               /\ UNCHANGED <<obs, yo_scrollback>>
            \/ /\ pump' = [pump EXCEPT !.at = "error"]
               /\ obs' = [obs EXCEPT !.fatal = TRUE]
               /\ UNCHANGED yo_scrollback
    /\ ev' = Ev("output")
    /\ UNCHANGED shell
    /\ PumpFrame

\* Hangup or error on the PTY without data to read (580-582)
PumpHup ==
    /\ pump.at = "hup"
    /\ pump' = [pump EXCEPT !.at = IF pump.out_hup /\ ~pump.out_ready
                                   THEN "wait_child" ELSE "top"]
    /\ ev' = Ev("hup")
    /\ UNCHANGED <<shell, yo_scrollback, obs>>
    /\ PumpFrame

\* error: error_exit = 1 and SIGTERM for the child (585-588); the child
\* dies of the signal now, or goes on as it handles or ignores it.
PumpError ==
    /\ pump.at = "error"
    /\ pump' = [pump EXCEPT !.at = "wait_child", !.error_exit = TRUE, !.killed = TRUE]
    /\ \E dies \in BOOLEAN :
          shell' = IF dies /\ shell.at = "running"
                   THEN ChildAt("zombie", SignaledStatus(SIGTERM)) ELSE shell
    /\ ev' = Ev("error")
    /\ UNCHANGED <<yo_scrollback, obs>>
    /\ PumpFrame

\* wait_child: waitpid(yo_child_pid, &status, 0) until it is not EINTR
\* (591-594); the call blocks while the child runs.
PumpWaitChild ==
    /\ pump.at = "wait_child"
    /\ \/ /\ pump' = pump
          /\ UNCHANGED shell
       \/ /\ shell.at = "zombie"
          /\ pump' = [pump EXCEPT !.at = "cleanup", !.status = shell.status]
          /\ shell' = [shell EXCEPT !.at = "reaped"]
       \/ /\ shell.at = "reaped"
          /\ pump' = [pump EXCEPT !.at = "cleanup"]
          /\ UNCHANGED shell
    /\ ev' = Ev("wait_child")
    /\ UNCHANGED <<yo_scrollback, obs>>
    /\ PumpFrame

\* cleanup: the terminal is restored and the pump exits (597-610).
PumpCleanup ==
    /\ pump.at = "cleanup"
    /\ pump' = [pump EXCEPT !.at = "exited",
                            !.exit = PumpExitStatus(pump.error_exit, pump.status)]
    /\ ev' = Ev("exit")
    /\ UNCHANGED <<shell, yo_scrollback, obs>>
    /\ PumpFrame

NextPump ==
    \/ ChildExits \/ ChildKilled \/ PumpReap \/ PumpDrain \/ PumpPoll \/ PumpStdin
    \/ PumpOutput \/ PumpHup \/ PumpError \/ PumpWaitChild \/ PumpCleanup

SpecPump == InitPump /\ [][NextPump]_vars

PendingUnexplained(r) ==
    LET p == yo_parse_response(r)
    IN  p.ok /\ p.type = "command" /\ p.pending
        /\ (p.explanation = NULL \/ p.explanation = "")

\* yo_handle_explanation_retry 1222-1228: the repair reply that is accepted.
RepairAccepted(r) ==
    LET p == yo_parse_response(r)
    IN  r.some /\ p.ok /\ p.type = "command"
        /\ p.explanation # NULL /\ p.explanation # ""

\* One step of a turn, as C31 reads it: a repair request goes out only for
\* a pending command without explanation; a turn that dispatches without
\* having sent one did not hold such a command; and the tool dispatched
\* after a repair is the repair reply when that is a command with a
\* non-empty explanation and the original otherwise.
C31_Step ==
    LET issued == turn.stage # "explain" /\ turn'.stage = "explain"
        direct == turn.stage \in {"initial", "scrollback", "docs"}
                  /\ ev'.ended /\ ev'.tool.some
        answered == turn.stage = "explain" /\ ev'.ended /\ ev'.tool.some
    IN  /\ issued => PendingUnexplained(turn'.tool_use)
        /\ direct => ~PendingUnexplained(ev'.tool)
        /\ answered => ev'.tool = IF RepairAccepted(ev'.result)
                                  THEN ev'.result ELSE turn.tool_use

\* C31: in every turn of either handler a repair request is issued exactly
\* when the final tool is a command with pending=true and no explanation,
\* and the repair reply replaces the original exactly when it is a command
\* with a non-empty explanation (the claim as stated).
C31_RepairIffPendingUnexplained == [][C31_Step]_vars

(***************************************************************************)
(* SpecReissue: the message list of each request of a transport call.  The *)
(* memory grows as in SpecMsg; yo_call_claude builds the messages of a     *)
(* query and the transport sends them, and sends a second request when the *)
(* reply holds several tool-uses.  turn.messages is the messages argument  *)
(* of the yo_call_claude_with_messages_internal activation in progress.    *)
(***************************************************************************)

\* The text of the user message that asks for one tool call (2208-2210).
MultipleToolsText ==
    "You provided multiple tool calls. Please respond with exactly one tool call - "
    \o "the most appropriate one for the user's request."

\* The assistant message that holds a copy of a whole content array
\* (cJSON_Duplicate(content_array, 1)).
AssistantMessage(content) ==
    cJSON_CreateObject(<<Member("role", cJSON_CreateString("assistant")),
                         Member("content", cJSON_CreateArray(content))>>)

\* retry_messages of yo_call_claude_with_messages_internal (2196-2211): a
\* new array, built from the content array of the reply alone.
RetryMessages(content) ==
    cJSON_CreateArray(<<AssistantMessage(content),
                        TextMessage("user", MultipleToolsText)>>)

\* yo_call_claude: the messages of the query are built and the transport
\* is called with them.
ReissueCall ==
    /\ pc = "msg"
    /\ pc' = "request"
    /\ \E q \in MsgQueries :
          LET messages == yo_build_messages(yo_history, q)
          IN  /\ turn' = [NoTurn EXCEPT !.kind = "accept", !.query = q,
                                        !.stage = "initial", !.messages = messages]
              /\ ev' = [Ev("call") EXCEPT !.query = q, !.messages = messages]
    /\ UNCHANGED <<histVars, flagVars, sigVars, procVars, rlVars, ringVars, obs>>

\* One HTTP exchange of the call ends: the transport calls itself with
\* retry_messages, or returns to the caller.
ReissueResponse ==
    /\ pc = "request"
    /\ \E resp \in CallOutcomes :
        LET step == TransportStep(resp, turn.is_retry)
        IN  IF step.reissue
            THEN /\ pc' = "request"
                 /\ turn' = [turn EXCEPT
                               !.is_retry = TRUE,
                               !.messages = RetryMessages(resp.content)]
                 /\ ev' = [Ev("http") EXCEPT !.last = resp.content]
            ELSE /\ pc' = "msg"
                 /\ turn' = NoTurn
                 /\ ev' = [Ev("http") EXCEPT !.returned = TRUE, !.result = step.result]
    /\ UNCHANGED <<histVars, flagVars, sigVars, procVars, rlVars, ringVars, obs>>

NextReissue == MsgAdd \/ ReissueCall \/ ReissueResponse

SpecReissue == InitMsg /\ [][NextReissue]_vars

\* The role of a message
RoleOf(message) == StringOf(message, "role")

\* The step that sends the second request of a call, as C32 reads it.
C32_Step ==
    (pc = "request" /\ ~turn.is_retry /\ turn'.is_retry) =>
        /\ ToolUseCount(ev'.last) >= 2
        /\ turn'.messages.child =
              turn.messages.child
              \o <<AssistantMessage(ev'.last), TextMessage("user", MultipleToolsText)>>
        /\ RoleOf(turn'.messages.child[1]) = "user"
        /\ \E i \in 1 .. Len(turn'.messages.child) :
              turn'.messages.child[i] = TextMessage("user", turn.query)

\* C32: when a reply holds two or more tool-use blocks, the messages of the
\* request issued again are the messages of the original request followed
\* by the whole assistant message and the "You provided multiple tool
\* calls" user message: the conversation and the query are still there and
\* the list begins with a user message (the claim as stated).
C32_ReissueAppendsToMessages == [][C32_Step]_vars

(***************************************************************************)
(* Properties of rl_yo_accept_line after a dispatched command (SpecKey)    *)
(***************************************************************************)

\* An accept-line step taken while "last was command" is set and the
\* continuation is armed, as C33 reads it.
C33_Step ==
    (pc = "edit" /\ ev'.op \in {"accept", "reset"}
     /\ yo_last_was_command /\ yo_continuation_active) =>
        LET line == ev'.line
        IN  /\ ~yo_last_was_command'
            /\ (line # "" /\ ~BeginsYoSpace(line)) =>
                  /\ yo_last_executed_command' = line
                  /\ rl_startup_hook' = Hook
                  /\ yo_saved_startup_hook' = rl_startup_hook
                  /\ yo_continuation_active'
            /\ (line = "" \/ BeginsYoSpace(line)) =>
                  /\ ~yo_continuation_active'
                  /\ rl_startup_hook' # Hook
                  /\ UNCHANGED <<rl_startup_hook, yo_saved_startup_hook,
                                 yo_last_executed_command>>

\* C33: on the accept-line that follows a command dispatch with the
\* continuation armed, a non-empty line that does not begin with "yo " is
\* saved as the executed line and the one-shot hook is installed (the
\* previous startup hook saved); an empty line disarms the continuation and
\* installs no hook; so does a line that begins with "yo "; and "last was
\* command" is cleared in all three cases.
C33_AcceptAfterArmedCommand == [][C33_Step]_vars

\* C33 witness: the assistant prefilled "mk" with the continuation armed,
\* the user ran "ls" instead, and the hook is installed with "ls" saved.
C33_Witness ==
    /\ ev.op = "accept" /\ ev.awaited /\ ev.line = "ls"
    /\ pc = "exec"
    /\ Len(yo_history) >= 1 /\ yo_history[Len(yo_history)].response = "mk"
    /\ yo_history[Len(yo_history)].pending
    /\ rl_startup_hook = Hook /\ yo_last_executed_command = "ls"
    /\ yo_continuation_active /\ ~yo_last_was_command

(***************************************************************************)
(* Properties of the control loop (Spec): errors and the continuation      *)
(***************************************************************************)

\* C34: after a turn of either handler that ended in an error (no usable
\* key, transport error, cancellation, parse error, exhausted sub-request
\* loop, unknown tool) the continuation is not armed.
C34_ErrorLeavesContinuationDisarmed ==
    (ev.ended /\ ev.outcome = "error") => ~yo_continuation_active

\* C34 witness: a continuation turn, which began with the continuation
\* armed, was cancelled and the editor is back at the prompt, disarmed.
C34_Witness ==
    /\ ev.ended /\ ev.outcome = "error" /\ ev.err = "cancelled"
    /\ ev.kind = "hook"
    /\ pc = "edit"
    /\ ~yo_continuation_active

(***************************************************************************)
(* SpecHook: the startup hook as a slot shared with the host.  The host    *)
(* program may have its own rl_startup_hook installed when the assistant   *)
(* installs the continuation hook, and an interrupt that readline handles  *)
(* after the line was accepted runs the registered cleanup before the hook *)
(* fires.                                                                  *)
(***************************************************************************)

\* Yo turns begun by accept-line in one run of SpecHook
MaxHookTurns == 2

\* A startup hook of the host program (yo.c:114, "bash's hook")
HostHook == "host_startup_hook"

HookLines == {"", "ls", "yo q"}

HookKeyFiles == { KeyFile(TRUE, S_IFREG + Mode(6, 0, 0), "sk-1") }

HookAcceptLine == AcceptLineOf(HookLines, HookKeyFiles, MaxHookTurns)

\* The host installs a startup hook of its own while it prepares the next
\* call of readline.
HostInstallsHook ==
    /\ pc = "exec"
    /\ rl_startup_hook = NULL
    /\ rl_startup_hook' = HostHook
    /\ ev' = Ev("host")
    /\ UNCHANGED <<histVars, flagVars, sigVars, procVars, rl_sigcleanup, rl_line_buffer,
                   ringVars, pc, turn, obs>>

\* SIGINT handled by readline after the line was accepted and before the
\* startup hook of the next prompt runs: the registered cleanup runs once.
StartupSigint ==
    /\ pc = "exec"
    /\ rl_sigcleanup = SigCleanup
    /\ LET c == yo_continuation_sigcleanup("SIGINT", yo_continuation_active,
                                           yo_last_was_command)
       IN  /\ yo_continuation_active' = c.active
           /\ yo_last_was_command' = c.last_was_command
    /\ rl_sigcleanup' = NULL
    /\ ev' = Ev("sigint")
    /\ UNCHANGED <<histVars, yo_saved_startup_hook, yo_last_executed_command,
                   yo_cancelled, sigVars, procVars, rl_startup_hook, rl_line_buffer,
                   ringVars, pc, turn, obs>>

NextHook ==
    \/ HookAcceptLine
    \/ HostInstallsHook
    \/ StartupSigint
    \/ ReadlineStart
    \/ HttpResponse

SpecHook == Init /\ [][NextHook]_vars

\* The step in which readline calls the installed continuation hook, as C35
\* reads it.
C35_Step ==
    (pc = "exec" /\ rl_startup_hook = Hook /\ ev'.op = "readline") =>
        /\ rl_startup_hook' = obs.hook_before
        /\ rl_startup_hook' # Hook
        /\ yo_saved_startup_hook' = NULL

\* C35: installing and firing the continuation hook is a round trip on the
\* startup hook: when the hook has run, on any of its paths (the
\* continuation no longer active, no key, a turn begun), rl_startup_hook is
\* what it was before the installation and the saved-hook slot is empty.
C35_HookRoundTrip == [][C35_Step]_vars

\* C35 witness: the hook was installed over the host's hook, an interrupt
\* cleared the continuation, and the hook, fired while inactive, has put the
\* host's hook back.
C35_Witness ==
    /\ ev.op = "readline" /\ ~ev.hook_body /\ ~ev.ended
    /\ obs.hook_before = HostHook
    /\ rl_startup_hook = HostHook
    /\ yo_saved_startup_hook = NULL
    /\ ~yo_continuation_active
    /\ yo_last_executed_command # NULL

(***************************************************************************)
(* The structure of the ring (SpecLock)                                    *)
(***************************************************************************)

\* A process is inside the critical section of a ring function that writes
\* write_pos or data_size: the pump in an append, the shell in a clear.
WriterInside == InRing(pump) \/ (InRing(shell) /\ shell.op = "clear")

C37_ArmedMeansPendingCommand ==
    (pc = "edit" /\ yo_continuation_active) =>
        /\ yo_last_was_command
        /\ turn = NoTurn
        /\ rl_startup_hook # Hook
        /\ Len(yo_history) >= 1
        /\ yo_history[Len(yo_history)].response_type = "command"
        /\ yo_history[Len(yo_history)].pending
        /\ ~yo_history[Len(yo_history)].executed

\* C37 witness: the editor waits with the continuation armed by the hook's
\* pending command, the second step of a plan whose first step ran.
C37_Witness ==
    /\ pc = "edit" /\ yo_continuation_active /\ yo_last_was_command
    /\ ev.ended /\ ev.kind = "hook" /\ ev.outcome = "command"
    /\ rl_sigcleanup = SigCleanup
    /\ Len(yo_history) = 2
    /\ yo_history[1].executed /\ yo_history[1].pending
    /\ yo_history[2].pending /\ ~yo_history[2].executed

(***************************************************************************)
(* SpecTurn: the HTTP exchanges of one turn after another, counted.  Each  *)
(* request ends: the transfer is bounded by CURLOPT_TIMEOUT (1966) and the *)
(* transport's loop leaves on completion, error or SIGINT (1980-1993), so  *)
(* the step that ends the exchange in flight is taken eventually.          *)
(***************************************************************************)

\* Yo turns begun by accept-line in one run of SpecTurn
MaxTurnTurns == 1

TurnLines == {"yo q"}

TurnAcceptLine == AcceptLineOf(TurnLines, HookKeyFiles, MaxTurnTurns)

TurnHttpResponse == HttpResponseWith(TRUE)

NextTurn == TurnAcceptLine \/ ReadlineStart \/ TurnHttpResponse

SpecTurn == Init /\ [][NextTurn]_vars /\ WF_vars(TurnHttpResponse)

MaxFwdBytes == 5

\* What the shell writes with one write call
ShellChunks == {<<"a">>, <<"b", LF>>}

\* The last n bytes of seq, all of it when it is shorter.
TailOf(seq, n) == IF n >= Len(seq) THEN seq ELSE LastN(seq, n)

\* yo_write_all (435-453): write is called until every byte is out; the
\* descriptor fails for good at byte fails_at, or not at all when fails_at
\* lies behind the data.  ret is the return value, out the bytes that the
\* descriptor took.
yo_write_all(data, fails_at) ==
    IF fails_at > Len(data) THEN [ret |-> 0, out |-> data]
    ELSE [ret |-> -1, out |-> SubSeq(data, 1, fails_at - 1)]

\* A mirror that appends the chunk whatever became of the write.
MirrorAlways(ring, chunk, ret) == yo_scrollback_append(ring, chunk)

\* The ring after a chunk went to yo_write_all (565-567, 511-513): the
\* append is behind the test of the return value.
MirrorChunk(ring, chunk, ret) ==
    IF ret < 0 THEN ring ELSE yo_scrollback_append(ring, chunk)

\* The pump enters yo_pump_loop; nothing was written to the PTY yet.
InitFwd == InitPump

\* The shell, or a command it runs, writes to the PTY slave.
ShellWrites ==
    /\ shell.at = "running"
    /\ \E chunk \in ShellChunks :
          /\ obs.sent + Len(chunk) <= MaxFwdBytes
          /\ obs' = [obs EXCEPT !.master = @ \o chunk, !.sent = @ + Len(chunk)]
    /\ ev' = Ev("shell_write")
    /\ UNCHANGED <<pump, shell, yo_scrollback>>
    /\ PumpFrame

\* poll(fds, 2, 100) (527-537): the master is readable when it holds bytes,
\* and once the slave is closed; it hangs up only when the shell is gone.
FwdPoll ==
    /\ pump.at = "poll"
    /\ \/ /\ pump' = [pump EXCEPT !.at = "top"]
          /\ ev' = Ev("eintr")
          /\ UNCHANGED obs
       \/ /\ obs.master = <<>>
          /\ pump' = [pump EXCEPT !.at = "top"]
          /\ ev' = Ev("poll")
          /\ UNCHANGED obs
       \/ /\ pump' = [pump EXCEPT !.at = "error"]
          /\ obs' = [obs EXCEPT !.fatal = TRUE]
          /\ ev' = Ev("poll")
       \/ /\ \E i \in BOOLEAN, o \in BOOLEAN, h \in BOOLEAN :
                /\ i \/ o \/ h
                /\ obs.master # <<>> => o
                /\ (obs.master = <<>> /\ shell.at = "running") => ~o
                /\ shell.at = "running" => ~h
                /\ pump' = [pump EXCEPT !.at = "stdin", !.in_ready = i,
                                        !.out_ready = o, !.out_hup = h]
          /\ ev' = Ev("poll")
          /\ UNCHANGED obs
    /\ UNCHANGED <<shell, yo_scrollback>>
    /\ PumpFrame

\* read(yo_pty_master, buf, sizeof(buf)) with n > 0, then yo_write_all and
\* yo_scrollback_append: the read takes the first n bytes of the master,
\* stdout takes what yo_write_all got out.
FwdChunk(n, fails_at) ==
    LET chunk == SubSeq(obs.master, 1, n)
        w == yo_write_all(chunk, fails_at)
    IN  /\ yo_scrollback' = MirrorChunk(yo_scrollback, chunk, w.ret)
        /\ obs' = [obs EXCEPT !.master = SubSeq(@, n + 1, Len(@)),
                              !.display = @ \o w.out,
                              !.whole = IF w.ret < 0 THEN @ ELSE Len(obs.display) + n,
                              !.fatal = @ \/ (w.ret < 0 /\ pump.at = "output")]

\* Output of the PTY master goes to the real stdout and into the ring
\* (559-578).
FwdOutput ==
    /\ pump.at = "output"
    /\ IF ~pump.out_ready
       THEN /\ pump' = [pump EXCEPT !.at = "hup"]
            /\ ev' = Ev("output")
            /\ UNCHANGED <<obs, yo_scrollback>>
       ELSE \/ \E n \in 1 .. Len(obs.master), fails_at \in 1 .. Len(obs.master) + 1 :
                  /\ fails_at <= n + 1
                  /\ FwdChunk(n, fails_at)
                  /\ pump' = [pump EXCEPT !.at = IF fails_at > n THEN "hup" ELSE "error"]
                  /\ ev' = Ev("output")
            \/ /\ obs.master = <<>>
               /\ pump' = [pump EXCEPT !.at = "wait_child"]
               /\ ev' = Ev("output")
               /\ UNCHANGED <<obs, yo_scrollback>>
            \/ /\ pump' = [pump EXCEPT !.at = "hup"]
               /\ ev' = Ev("eintr")
               /\ UNCHANGED <<obs, yo_scrollback>>
            \/ /\ pump' = [pump EXCEPT !.at = "error"]
               /\ obs' = [obs EXCEPT !.fatal = TRUE]
               /\ ev' = Ev("output")
               /\ UNCHANGED yo_scrollback
    /\ UNCHANGED shell
    /\ PumpFrame

\* One round of the drain after the child was reaped (505-524).
FwdDrain ==
    /\ pump.at = "drain"
    /\ \/ \E n \in 1 .. Len(obs.master), fails_at \in 1 .. Len(obs.master) + 1 :
             /\ fails_at <= n + 1
             /\ FwdChunk(n, fails_at)
             /\ pump' = IF fails_at > n THEN pump ELSE [pump EXCEPT !.at = "cleanup"]
             /\ ev' = Ev("drain")
       \/ /\ obs.master = <<>>
          /\ pump' = [pump EXCEPT !.at = "cleanup"]
          /\ ev' = Ev("drain_end")
          /\ UNCHANGED <<yo_scrollback, obs>>
       \/ /\ pump' = pump
          /\ ev' = Ev("eintr")
          /\ UNCHANGED <<yo_scrollback, obs>>
       \/ /\ pump' = [pump EXCEPT !.at = "cleanup"]
          /\ ev' = Ev("drain_end")
          /\ UNCHANGED <<yo_scrollback, obs>>
    /\ UNCHANGED shell
    /\ PumpFrame

\* The steps of the pump process
FwdPumpStep ==
    \/ PumpReap \/ FwdDrain \/ FwdPoll \/ PumpStdin \/ FwdOutput \/ PumpHup
    \/ PumpError \/ PumpWaitChild \/ PumpCleanup

NextFwd == ChildExits \/ ChildKilled \/ ShellWrites \/ FwdPumpStep

\* The places of the pump loop where a system call returns
PumpPlaces == {"top", "drain", "poll", "stdin", "output", "hup", "error",
               "wait_child", "cleanup"}

\* A step of the pump at the given place that is no interrupted system call
\* and no wait.
PumpMoves(place) ==
    /\ pump.at = place
    /\ FwdPumpStep
    /\ pump' # pump
    /\ ev'.op # "eintr"

SpecFwd ==
    /\ InitFwd /\ [][NextFwd]_vars
    /\ \A place \in PumpPlaces : SF_vars(PumpMoves(place))

\* C39: the ring never runs ahead of the display.  The content of the ring
\* is the tail of the bytes that stdout took from writes that succeeded:
\* every byte of the ring was written to stdout, the chunks lie in the ring
\* in the order of their writes, and the bytes of a write that failed, which
\* stdout may have taken in part, are not in the ring.
C39_RingBehindDisplay ==
    /\ obs.whole <= Len(obs.display)
    /\ RawData(yo_scrollback)
          = TailOf(SubSeq(obs.display, 1, obs.whole), yo_scrollback.capacity)

\* C39 witness: the ring has wrapped, then a write of two bytes failed
\* after stdout took the first of them, and the ring holds the two bytes
\* before that one.
C39_Witness ==
    /\ obs.display = <<"a", "b", LF, "b">>
    /\ obs.whole = 3
    /\ RawData(yo_scrollback) = <<"b", LF>>
    /\ pump.at = "error"

\* C40 (as claimed): while the shell is alive the pump keeps forwarding.
\* Unless a system call of the loop failed for good, the pump is never in the
\* blocking waitpid of wait_child while the shell still runs, and every byte
\* the shell wrote to the PTY is in time written in full to stdout and
\* appended to the ring, unless the shell terminates first.
C40_PumpKeepsForwarding ==
    /\ [](pump.at = "wait_child" /\ ~pump.error_exit => shell.at # "running")
    /\ \A n \in 1 .. MaxFwdBytes :
          (obs.sent >= n /\ shell.at = "running")
              ~> (obs.whole >= n \/ shell.at # "running" \/ pump.error_exit)

====
